---- MODULE Spec2Model ----
(***************************************************************************)
(* Event bus: the SQLite-backed event log and session registry             *)
(* (event_bus/storage.py) and the MCP tools built on it                    *)
(* (agent_event_bus/server.py).                                            *)
(*                                                                         *)
(* Python str values that the code parses (cursors, client ids) are        *)
(* sequences of one-character strings, so that int() and str() are         *)
(* computed the way Python computes them.                                  *)
(***************************************************************************)
EXTENDS Integers, Sequences, FiniteSets, TLC

VARIABLES
    sessions,   \* table sessions: the set of rows, primary key id
    events,     \* table events: the set of rows, primary key id
    seq,        \* sqlite_sequence of events (AUTOINCREMENT high-water mark)
    now,        \* the wall clock read by datetime.now()
    procs,      \* the local host's process table, by pid string
    ret,        \* what the last call returned (or that it raised)
    call,       \* the arguments of the storage query under study
    poll,       \* a client paginating with next_cursor
    regs,       \* history: registrations whose session was not soft-deleted since
    calls,      \* tool calls in flight, one per server thread
    db          \* the store file's schema: columns per table, rows of schema_version

vars == <<sessions, events, seq, now, procs, ret, call, poll, regs, calls, db>>

----------------------------------------------------------------------------
(* Bounds of the model *)

MaxLog == 3         \* rows the events table may hold while the clock stands still
MaxEvents == 2      \* rows the events table may hold while the clock runs
MaxLimit == 2       \* largest limit argument tried
MaxTicks == 1       \* how many times the clock advances
MaxBeats == 2       \* how many seconds the clock counts in single steps

----------------------------------------------------------------------------
(* Python values *)

\* None, where the code has "str | None" or "list[str] | None"
None == <<"<None>">>

\* bool(x) of an optional str or list: None and the empty value are falsy
Truthy(x) == x # None /\ x # <<>>

DigitChars == <<"0", "1", "2", "3", "4", "5", "6", "7", "8", "9">>

IsDigit(c) == \E i \in 1..10 : DigitChars[i] = c

DigitVal(c) == (CHOOSE i \in 1..10 : DigitChars[i] = c) - 1

RECURSIVE LStrip(_)
LStrip(s) == IF s # <<>> /\ Head(s) = " " THEN LStrip(Tail(s)) ELSE s

RECURSIVE RStrip(_)
RStrip(s) ==
    IF s # <<>> /\ s[Len(s)] = " " THEN RStrip(SubSeq(s, 1, Len(s) - 1)) ELSE s

RECURSIVE DropZeros(_)
DropZeros(d) == IF d # <<>> /\ Head(d) = 0 THEN DropZeros(Tail(d)) ELSE d

\* The digits of a literal body, most significant first ("_" separators dropped)
RECURSIVE DigitsOf(_)
DigitsOf(s) ==
    IF s = <<>> THEN <<>>
    ELSE IF Head(s) = "_" THEN DigitsOf(Tail(s))
    ELSE <<DigitVal(Head(s))>> \o DigitsOf(Tail(s))

\* A decimal literal body: digits, single underscores only between digits
IsLiteral(s) ==
    /\ s # <<>>
    /\ IsDigit(s[1]) /\ IsDigit(s[Len(s)])
    /\ \A i \in 1..Len(s) : IsDigit(s[i]) \/ s[i] = "_"
    /\ \A i \in 1..(Len(s) - 1) : ~(s[i] = "_" /\ s[i + 1] = "_")

\* An integer of any size: sign and magnitude (digits without leading zeros)
IntZero == [neg |-> FALSE, mag |-> <<>>]

\* int(s) of a str: [ok |-> FALSE] stands for ValueError
PyInt(s) ==
    LET t == RStrip(LStrip(s))
        signed == t # <<>> /\ Head(t) \in {"+", "-"}
        body == IF signed THEN Tail(t) ELSE t
        mag == DropZeros(DigitsOf(body))
    IN  IF IsLiteral(body)
        THEN [ok |-> TRUE, neg |-> (signed /\ Head(t) = "-" /\ mag # <<>>), mag |-> mag]
        ELSE [ok |-> FALSE, neg |-> FALSE, mag |-> <<>>]

\* str(n) of an int n >= 0
RECURSIVE PyStr(_)
PyStr(n) ==
    IF n < 10 THEN <<DigitChars[n + 1]>>
    ELSE PyStr(n \div 10) \o <<DigitChars[(n % 10) + 1]>>

\* a < b on magnitudes
RECURSIVE LexLess(_, _)
LexLess(a, b) ==
    IF a = <<>> THEN FALSE
    ELSE IF Head(a) # Head(b) THEN Head(a) < Head(b)
    ELSE LexLess(Tail(a), Tail(b))

MagLess(a, b) == Len(a) < Len(b) \/ (Len(a) = Len(b) /\ LexLess(a, b))

\* The magnitude of an int n >= 0
MagOf(n) == DropZeros(DigitsOf(PyStr(n)))

\* n > v for a row id n >= 0 and a parsed integer v
IntGreater(n, v) == v.neg \/ MagLess(v.mag, MagOf(n))

\* SQLite INTEGER is a signed 64-bit value: binding a Python int outside
\* -2^63 .. 2^63-1 raises OverflowError
Int64MaxMag == <<9, 2, 2, 3, 3, 7, 2, 0, 3, 6, 8, 5, 4, 7, 7, 5, 8, 0, 7>>
Int64MinMag == <<9, 2, 2, 3, 3, 7, 2, 0, 3, 6, 8, 5, 4, 7, 7, 5, 8, 0, 8>>

FitsInt64(v) ==
    IF v.neg THEN ~MagLess(Int64MinMag, v.mag) ELSE ~MagLess(Int64MaxMag, v.mag)

----------------------------------------------------------------------------
(* Event log: SQLiteStorage.add_event / get_events / get_cursor *)

EventTypes == {"A", "B"}
Channels == {"all", "repo:x"}

IdsOf(rows) == {e.id : e \in rows}

MaxOf(S) == CHOOSE x \in S : \A y \in S : y <= x
MinOf(S) == CHOOSE x \in S : \A y \in S : x <= y

\* A rowid taken without the increment: the id of the newest row again
NextEventIdStale(evs, sq) == MaxOf({sq} \cup IdsOf(evs))

\* INTEGER PRIMARY KEY AUTOINCREMENT: one more than the largest id ever used
NextEventId(evs, sq) == MaxOf({sq} \cup IdsOf(evs)) + 1

\* The row add_event inserts (and returns)
add_event(evs, sq, event_type, payload, session_id, channel, ts) ==
    [id |-> NextEventId(evs, sq), event_type |-> event_type, payload |-> payload,
     session_id |-> session_id, timestamp |-> ts, channel |-> channel]

\* ORDER BY id ASC / DESC of a set of rows
RECURSIVE OrderById(_, _)
OrderById(rows, order) ==
    IF rows = {} THEN <<>>
    ELSE LET pick == IF order = "desc" THEN MaxOf(IdsOf(rows)) ELSE MinOf(IdsOf(rows))
             first == CHOOSE e \in rows : e.id = pick
         IN  <<first>> \o OrderById(rows \ {first}, order)

\* LIMIT n: a negative n is no limit
Limit(s, n) == IF n < 0 \/ n >= Len(s) THEN s ELSE SubSeq(s, 1, n)

InList(x, list) == \E i \in 1..Len(list) : list[i] = x

\* since_id of get_events: 0 for a falsy or unparsable cursor
SinceId(cursor) ==
    IF Truthy(cursor)
    THEN LET p == PyInt(cursor) IN IF p.ok THEN [neg |-> p.neg, mag |-> p.mag] ELSE IntZero
    ELSE IntZero

\* A WHERE clause with no "id > ?" term
WhereAnyId(e, since, channels, event_types) ==
    /\ Truthy(channels) => InList(e.channel, channels)
    /\ Truthy(event_types) => InList(e.event_type, event_types)

\* The WHERE clause of get_events
Where(e, since, channels, event_types) ==
    /\ since # IntZero => IntGreater(e.id, since)
    /\ Truthy(channels) => InList(e.channel, channels)
    /\ Truthy(event_types) => InList(e.event_type, event_types)

\* next_cursor taken from the oldest row of the batch in either order
NextCursorOldest(batch, cursor, order) ==
    IF batch # <<>>
    THEN PyStr(MinOf({batch[i].id : i \in 1..Len(batch)}))
    ELSE cursor

\* next_cursor as the docstring of get_events words it: None for no events
NextCursorOrNone(batch, cursor, order) ==
    IF batch # <<>>
    THEN IF order = "desc"
         THEN PyStr(MinOf({batch[i].id : i \in 1..Len(batch)}))
         ELSE PyStr(MaxOf({batch[i].id : i \in 1..Len(batch)}))
    ELSE None

\* next_cursor of get_events: the last row's id, or the cursor passed in
NextCursor(batch, cursor, order) ==
    IF batch # <<>>
    THEN IF order = "desc"
         THEN PyStr(MinOf({batch[i].id : i \in 1..Len(batch)}))
         ELSE PyStr(MaxOf({batch[i].id : i \in 1..Len(batch)}))
    ELSE cursor

\* SQLiteStorage.get_events: the batch and next_cursor, or raised
SQLiteStorage_get_events(evs, cursor, limit, channels, order, event_types) ==
    LET since == SinceId(cursor)
        rows == {e \in evs : Where(e, since, channels, event_types)}
        batch == Limit(OrderById(rows, order), limit)
    IN  IF since # IntZero /\ ~FitsInt64(since)
        THEN [raised |-> TRUE, events |-> <<>>, next_cursor |-> None]
        ELSE [raised |-> FALSE, events |-> batch,
              next_cursor |-> NextCursor(batch, cursor, order)]

\* a get_cursor that points at the oldest event
get_cursor_oldest(evs) ==
    IF evs = {} THEN None ELSE PyStr(MinOf(IdsOf(evs)))

\* SQLiteStorage.get_cursor
SQLiteStorage_get_cursor(evs) ==
    IF evs = {} THEN None ELSE PyStr(MaxOf(IdsOf(evs)))

----------------------------------------------------------------------------
(* Session registry: the sessions table of SQLiteStorage *)

SESSION_TIMEOUT == 86400

\* NULL in a TIMESTAMP column
NoTime == -1

\* socket.gethostname() of the server
LocalHost == "m1"

\* session_id or "anonymous"
Anonymous == <<"anonymous">>

Active(tbl) == {r \in tbl : r.deleted_at = NoTime}

\* A plain INSERT that kept the row already stored under the id
add_session_keeping(tbl, row) == tbl \cup {row}

\* INSERT OR REPLACE INTO sessions: the row takes the place of the row with its id
add_session(tbl, row) == {r \in tbl : r.id # row.id} \cup {row}

\* The rows the SELECT of find_session_by_client matches (fetchone takes one)
find_session_by_client(tbl, machine, client_id) ==
    {r \in Active(tbl) : r.machine = machine /\ r.client_id = client_id}

\* A SELECT by id with no "deleted_at IS NULL"
get_session_any(tbl, session_id) == {r \in tbl : r.id = session_id}

\* The rows the SELECT of get_session matches (id is the primary key)
get_session(tbl, session_id) == {r \in Active(tbl) : r.id = session_id}

\* UPDATE sessions SET deleted_at = ? WHERE id = ? AND deleted_at IS NULL
delete_session(tbl, session_id, ts) ==
    {IF r.id = session_id /\ r.deleted_at = NoTime THEN [r EXCEPT !.deleted_at = ts] ELSE r
        : r \in tbl}

\* An UPDATE of last_heartbeat with no "deleted_at IS NULL"
update_heartbeat_any(tbl, session_id, ts) ==
    {IF r.id = session_id THEN [r EXCEPT !.last_heartbeat = ts] ELSE r : r \in tbl}

\* UPDATE sessions SET last_heartbeat = ? WHERE id = ? AND deleted_at IS NULL
update_heartbeat(tbl, session_id, ts) ==
    {IF r.id = session_id /\ r.deleted_at = NoTime THEN [r EXCEPT !.last_heartbeat = ts] ELSE r
        : r \in tbl}

\* UPDATE sessions SET last_cursor = ? WHERE id = ? AND deleted_at IS NULL
update_session_cursor(tbl, session_id, cursor) ==
    {IF r.id = session_id /\ r.deleted_at = NoTime THEN [r EXCEPT !.last_cursor = cursor] ELSE r
        : r \in tbl}

\* The rows "WHERE id = ? AND deleted_at IS NULL" of an UPDATE matches;
\* the callers return cursor.rowcount > 0
Matched(tbl, session_id) == {r \in tbl : r.id = session_id /\ r.deleted_at = NoTime}

\* A sweep whose cutoff takes the sessions last heard of at the cutoff too
cleanup_stale_sessions_inclusive(tbl, ts, timeout_seconds) ==
    [table |-> {IF r.last_heartbeat <= ts - timeout_seconds /\ r.deleted_at = NoTime
                THEN [r EXCEPT !.deleted_at = ts] ELSE r
                   : r \in tbl},
     rowcount |-> Cardinality({r \in tbl : /\ r.last_heartbeat <= ts - timeout_seconds
                                           /\ r.deleted_at = NoTime})]

\* SQLiteStorage.cleanup_stale_sessions(timeout_seconds): the table left by
\* UPDATE sessions SET deleted_at = now WHERE last_heartbeat < cutoff AND
\* deleted_at IS NULL, and cursor.rowcount
SQLiteStorage_cleanup_stale_sessions(tbl, ts, timeout_seconds) ==
    [table |-> {IF r.last_heartbeat < ts - timeout_seconds /\ r.deleted_at = NoTime
                THEN [r EXCEPT !.deleted_at = ts] ELSE r
                   : r \in tbl},
     rowcount |-> Cardinality({r \in tbl : /\ r.last_heartbeat < ts - timeout_seconds
                                           /\ r.deleted_at = NoTime})]

\* A sweep that is not run
cleanup_skipped(tbl, ts) == tbl

\* storage.cleanup_stale_sessions() as the tools call it: the default timeout
cleanup_stale_sessions(tbl, ts) ==
    SQLiteStorage_cleanup_stale_sessions(tbl, ts, SESSION_TIMEOUT).table

session_count(tbl) == Cardinality(Active(tbl))

\* The active rows by "ORDER BY registered_at DESC"
list_sessions_by_registration(tbl) ==
    LET act == Active(tbl)
        n == Cardinality(act)
    IN  {s \in [1..n -> act] :
            /\ \A i, j \in 1..n : i # j => s[i] # s[j]
            /\ \A i, j \in 1..n : i < j => s[i].registered_at >= s[j].registered_at}

\* The orders "ORDER BY last_heartbeat DESC" can return the active rows in
\* (rows of equal heartbeat come in any order)
SQLiteStorage_list_sessions(tbl) ==
    LET act == Active(tbl)
        n == Cardinality(act)
    IN  {s \in [1..n -> act] :
            /\ \A i, j \in 1..n : i # j => s[i] # s[j]
            /\ \A i, j \in 1..n : i < j => s[i].last_heartbeat >= s[j].last_heartbeat}

\* pid_t is a signed 32-bit value: os.kill of a Python int outside
\* -2^31 .. 2^31-1 raises OverflowError
Int32MaxMag == <<2, 1, 4, 7, 4, 8, 3, 6, 4, 7>>
Int32MinMag == <<2, 1, 4, 7, 4, 8, 3, 6, 4, 8>>

FitsInt32(v) ==
    IF v.neg THEN ~MagLess(Int32MinMag, v.mag) ELSE ~MagLess(Int32MaxMag, v.mag)

\* str() of a magnitude: the name a process goes by in the process table
MagStr(mag) == [i \in 1..Len(mag) |-> DigitChars[mag[i] + 1]]

\* os.kill(pid, 0) by what the process table holds for the pid: "own" (the
\* signal could be sent), "foreign" (PermissionError), "gone" or no entry
\* (ProcessLookupError). pid 0 is the caller's own process group and pid -1
\* every process the caller may signal; -n is the group the process n leads.
os_kill(pid, ptable) ==
    IF ~FitsInt32(pid) THEN "OverflowError"
    ELSE IF pid.mag = <<>> \/ (pid.neg /\ pid.mag = <<1>>) THEN "ok"
    ELSE IF MagStr(pid.mag) \notin DOMAIN ptable THEN "ProcessLookupError"
    ELSE IF ptable[MagStr(pid.mag)] = "gone" THEN "ProcessLookupError"
    ELSE IF ptable[MagStr(pid.mag)] = "foreign" THEN "PermissionError"
    ELSE "ok"

\* is_client_alive(client_id, is_local): the bool returned, or raised for the
\* OverflowError of os.kill, which no except clause catches
is_client_alive(client_id, is_local, ptable) ==
    IF client_id = None \/ ~is_local THEN [raised |-> FALSE, result |-> TRUE]
    ELSE IF ~PyInt(client_id).ok THEN [raised |-> FALSE, result |-> TRUE]
    ELSE LET pid == PyInt(client_id)
             sent == os_kill([neg |-> pid.neg, mag |-> pid.mag], ptable)
         IN  IF sent = "OverflowError" THEN [raised |-> TRUE, result |-> FALSE]
             ELSE [raised |-> FALSE, result |-> sent # "ProcessLookupError"]

\* extract_repo_from_cwd on the components of cwd.rstrip("/").split("/")
extract_repo_from_cwd(parts) ==
    LET at == {i \in 1..Len(parts) : parts[i] = ".worktrees"}
    IN  IF at # {} /\ MinOf(at) > 1 THEN parts[MinOf(at) - 1]
        ELSE IF parts # <<>> /\ parts[Len(parts)] # "" THEN parts[Len(parts)]
        ELSE "unknown"

\* _auto_heartbeat
auto_heartbeat(tbl, session_id, ts) ==
    IF Truthy(session_id) /\ session_id # Anonymous
    THEN update_heartbeat(tbl, session_id, ts) ELSE tbl

\* uuid.uuid4(): a token no row of the table has as its id
uuid4(tbl) ==
    LET used == {r.id : r \in tbl}
        free == {n \in 1..(Cardinality(tbl) + 1) : <<"u">> \o PyStr(n) \notin used}
    IN  {<<"u">> \o PyStr(MinOf(free))}

\* History: the registrations whose session has not been soft-deleted since.
\* Only an INSERT OR REPLACE clears a deleted_at, so a registration stands
\* when its session's row is active at the next write of register_session.
Standing(rs, tbl) == {t \in rs : \E r \in Active(tbl) : r.id = t.session_id}

----------------------------------------------------------------------------
(* Opening a store: SQLiteStorage._init_db and the schema migrations.      *)
(* A store is [columns, versions, sessions, events]: the columns of each   *)
(* table (none for a table that does not exist), the rows of               *)
(* schema_version, and the rows of sessions and events, each row a         *)
(* function of its table's columns.                                        *)

SCHEMA_VERSION == 2

\* The versions a migration is registered for (@migration(2, ...))
MIGRATIONS == {2}

\* A table that does not exist has no columns
NoTable == {}

\* The columns of the CREATE TABLE statements of _init_db
VersionColumns == {"version"}
SessionColumns ==
    {"id", "display_id", "name", "machine", "cwd", "repo", "registered_at",
     "last_heartbeat", "client_id", "last_cursor", "deleted_at"}
EventColumns == {"id", "event_type", "payload", "session_id", "timestamp", "channel"}

\* ALTER TABLE ... ADD COLUMN: every stored row gets the column's default
AddColumn(rows, column, default) == {r @@ (column :> default) : r \in rows}

\* _get_schema_version: MAX(version), 0 when the table has no row
get_schema_version(versions) == IF versions = {} THEN 0 ELSE MaxOf(versions)

\* a migrate_v2 that forgets the soft-delete column
migrate_v2_columns_partial(columns) == columns \cup {"display_id"}

\* migrate_v2: the columns of sessions after its ALTER TABLE statements
migrate_v2_columns(columns) == columns \cup {"display_id", "deleted_at"}

\* UPDATE sessions SET id = new_id WHERE id = old_id; ok is FALSE for the
\* IntegrityError of a second row under the primary key
UpdateId(tbl, old_id, new_id) ==
    LET hit == {r \in tbl : r.id = old_id}
        rest == tbl \ hit
    IN  IF hit # {} /\ new_id # old_id /\ \E r \in rest : r.id = new_id
        THEN [ok |-> FALSE, table |-> tbl]
        ELSE [ok |-> TRUE, table |-> rest \cup {[r EXCEPT !.id = new_id] : r \in hit}]

\* SELECT id, client_id FROM sessions: the rows in the order the scan yields
Fetched(tbl, order) ==
    LET ids == SelectSeq(order, LAMBDA x : \E r \in tbl : r.id = x)
    IN  [i \in 1..Len(ids) |-> CHOOSE r \in tbl : r.id = ids[i]]

\* migrate_v2: the loop that re-keys every fetched row
RECURSIVE Rekey(_, _)
Rekey(tbl, rows) ==
    IF rows = <<>> THEN [ok |-> TRUE, table |-> tbl]
    ELSE LET row == Head(rows)
             new_id == IF Truthy(row.client_id) THEN row.client_id
                       ELSE CHOOSE t \in uuid4(tbl) : TRUE
             u == UpdateId(tbl, row.id, new_id)
         IN  IF u.ok THEN Rekey(u.table, Tail(rows)) ELSE u

\* migrate_v2 on a connection with no transaction open. The ALTER TABLE
\* statements take effect at once; the UPDATE statements open a transaction,
\* which _connect leaves uncommitted when the migration raises.
migrate_v2(S, order) ==
    LET had == S.columns.sessions
        cols == migrate_v2_columns(had)
        named == IF "display_id" \in cols \ had
                 THEN AddColumn(S.sessions, "display_id", None) ELSE S.sessions
        rows == IF "deleted_at" \in cols \ had
                THEN AddColumn(named, "deleted_at", NoTime) ELSE named
        altered == [S EXCEPT !.columns.sessions = cols, !.sessions = rows]
        shown == {IF r.display_id = None THEN [r EXCEPT !.display_id = r.id] ELSE r :
                     r \in rows}
        k == Rekey(shown, Fetched(shown, order))
    IN  IF k.ok THEN [raised |-> FALSE, store |-> [altered EXCEPT !.sessions = k.table]]
        ELSE [raised |-> TRUE, store |-> altered]

\* _run_migrations
run_migrations(S, current_version, order) ==
    LET m == IF \E version \in (current_version + 1)..SCHEMA_VERSION :
                    version \in MIGRATIONS
             THEN migrate_v2(S, order) ELSE [raised |-> FALSE, store |-> S]
    IN  IF m.raised THEN m
        ELSE [raised |-> FALSE, store |-> [m.store EXCEPT !.versions = {SCHEMA_VERSION}]]

\* _init_db: what the store file holds when the call has returned or raised.
\* (The CREATE INDEX statements add no table and no column.)
init_db(S, order) ==
    LET had == S.columns
        vcols == IF had.schema_version = NoTable THEN VersionColumns
                 ELSE had.schema_version
        \* _migrate_sessions_schema
        dropped == "pid" \in had.sessions /\ "client_id" \notin had.sessions
        scols == IF dropped \/ had.sessions = NoTable THEN SessionColumns
                 ELSE had.sessions
        srows == IF dropped THEN {} ELSE S.sessions
        ecols == IF had.events = NoTable THEN EventColumns ELSE had.events
        created ==
            [columns |-> [schema_version |-> vcols,
                          sessions |-> scols \cup {"last_cursor"},
                          events |-> ecols \cup {"channel"}],
             versions |-> S.versions,
             sessions |-> IF "last_cursor" \in scols THEN srows
                          ELSE AddColumn(srows, "last_cursor", None),
             events |-> IF "channel" \in ecols THEN S.events
                        ELSE AddColumn(S.events, "channel", "all")]
        current_version == get_schema_version(S.versions)
    IN  IF current_version < SCHEMA_VERSION
        THEN run_migrations(created, current_version, order)
        ELSE [raised |-> FALSE, store |-> created]

\* A store file that does not exist yet
NoStore ==
    [columns |-> [schema_version |-> NoTable, sessions |-> NoTable, events |-> NoTable],
     versions |-> {}, sessions |-> {}, events |-> {}]

\* SQLiteStorage(): the schema of a store created by this version
OpenedStore ==
    LET S == init_db(NoStore, <<>>).store
    IN  [columns |-> S.columns, versions |-> S.versions]

----------------------------------------------------------------------------

(* Inputs *)

Orders == {"asc", "desc"}
Limits == 0..MaxLimit

ChannelLists == {None, <<>>, <<"repo:x">>, <<"all", "repo:x">>}
TypeLists == {None, <<>>, <<"A">>}

\* Cursor strings a caller may pass: absent, empty, junk, signed, padded,
\* separated, the ids around the log's extent and the ends of the 64-bit range
Cursors ==
    {None, <<>>, <<"a">>, <<"-", "1">>, <<" ", "2">>,
     <<"9", "2", "2", "3", "3", "7", "2", "0", "3", "6", "8", "5", "4", "7", "7", "5", "8", "0", "7">>,
     <<"9", "2", "2", "3", "3", "7", "2", "0", "3", "6", "8", "5", "4", "7", "7", "5", "8", "0", "8">>}
    \cup {PyStr(i) : i \in 0..(MaxLog + 1)}

\* Client ids: a pid of the local host, and a token that is no number
Pids == {<<"7">>}
ClientIds == Pids \cup {<<"k">>}

\* generate_session_id(): random.choice of an adjective and an animal
DisplayIds == {"brave-tiger"}

Threads == {1, 2}
\* A thread that is in no call of a tool
Idle ==
    [pc |-> "idle", name |-> "", machine |-> "", cwd |-> <<>>, repo |-> "",
     client_id |-> None, existing |-> {}, session_id |-> None, display_id |-> "",
     cursor |-> None, active_sessions |-> 0, resumed |-> FALSE, error |-> FALSE]

NoCall == [op |-> "none"]

NoPoll ==
    [active |-> FALSE, order |-> "asc", limit |-> 0, channels |-> None,
     event_types |-> None, cursor |-> None, seen |-> <<>>, done |-> FALSE,
     startSeq |-> 0, pages |-> 0]

QueryCalls ==
    [cursor : Cursors, limit : Limits, channels : ChannelLists, order : Orders,
     event_types : TypeLists]

Init ==
    /\ sessions = {}
    /\ events = {}
    /\ seq = 0
    /\ now = 0
    /\ procs = [p \in Pids |-> "own"]
    /\ ret = NoCall
    /\ call = NoCall
    /\ poll = NoPoll
    /\ regs = {}
    /\ calls = [t \in Threads |-> Idle]
    /\ db = OpenedStore

\* The log is empty and some storage query is about to be issued against it
InitQuery ==
    /\ sessions = {}
    /\ events = {}
    /\ seq = 0
    /\ now = 0
    /\ procs = [p \in Pids |-> "own"]
    /\ ret = NoCall
    /\ call \in QueryCalls
    /\ poll = NoPoll
    /\ regs = {}
    /\ calls = [t \in Threads |-> Idle]
    /\ db = OpenedStore

----------------------------------------------------------------------------
(* Storage-level calls on the event log *)

\* storage.add_event(event_type, payload, session_id, channel)
AddEvent(event_type, channel) ==
    /\ Cardinality(events) < MaxLog
    /\ LET e == add_event(events, seq, event_type, "p", <<"s">>, channel, now)
       IN  /\ events' = events \cup {e}
           /\ seq' = e.id
           /\ ret' = [op |-> "add_event", event |-> e]
    /\ UNCHANGED <<sessions, now, procs, call, poll, regs, calls, db>>

\* storage.get_events(cursor, limit, channels, order, event_types)
Query ==
    /\ ret' = [op |-> "get_events",
               result |-> SQLiteStorage_get_events(events, call.cursor, call.limit,
                              call.channels, call.order, call.event_types)]
    /\ UNCHANGED <<sessions, events, seq, now, procs, call, poll, regs, calls, db>>

NextQuery ==
    \/ \E t \in EventTypes, c \in Channels : AddEvent(t, c)
    \/ Query

SpecQuery == InitQuery /\ [][NextQuery]_vars

----------------------------------------------------------------------------
(* A client paginating: the first call has no cursor, every further call   *)
(* passes the next_cursor of the call before, until a batch is empty.      *)

PollLimits == 1..MaxLimit
PollChannelLists == {None, <<"repo:x">>}
PollTypeLists == {None, <<"A">>}

BatchIds(batch) == [i \in 1..Len(batch) |-> batch[i].id]

PollStart(order, limit, channels, event_types) ==
    /\ ~poll.active
    /\ LET r == SQLiteStorage_get_events(events, None, limit, channels, order, event_types)
       IN  /\ poll' = [active |-> TRUE, order |-> order, limit |-> limit,
                       channels |-> channels, event_types |-> event_types,
                       cursor |-> r.next_cursor, seen |-> BatchIds(r.events),
                       done |-> (r.events = <<>>), startSeq |-> seq, pages |-> 1]
           /\ ret' = [op |-> "get_events", result |-> r]
    /\ UNCHANGED <<sessions, events, seq, now, procs, call, regs, calls, db>>

PollNext ==
    /\ poll.active /\ ~poll.done
    /\ LET r == SQLiteStorage_get_events(events, poll.cursor, poll.limit, poll.channels,
                                         poll.order, poll.event_types)
       IN  /\ poll' = [poll EXCEPT !.cursor = r.next_cursor,
                                   !.seen = @ \o BatchIds(r.events),
                                   !.done = (r.events = <<>>),
                                   !.pages = @ + 1]
           /\ ret' = [op |-> "get_events", result |-> r]
    /\ UNCHANGED <<sessions, events, seq, now, procs, call, regs, calls, db>>

NextPoll ==
    \/ \E t \in EventTypes, c \in Channels : AddEvent(t, c)
    \/ \E o \in Orders, n \in PollLimits, ch \in PollChannelLists, ty \in PollTypeLists :
          PollStart(o, n, ch, ty)
    \/ PollNext

SpecPoll == Init /\ [][NextPoll]_vars

----------------------------------------------------------------------------
(* The MCP tools of server.py, each call run to completion *)

\* register_session(name, machine, cwd, client_id); machine "" is "not given"
register_session(name, machine_arg, cwd, client_id) ==
    LET swept == cleanup_stale_sessions(sessions, now)
        machine == IF machine_arg # "" THEN machine_arg ELSE LocalHost
        repo == extract_repo_from_cwd(cwd)
        found == IF client_id # None
                 THEN find_session_by_client(swept, machine, client_id) ELSE {}
        Reg(sid) == IF client_id # None
                    THEN {[machine |-> machine, client_id |-> client_id, session_id |-> sid]}
                    ELSE {}
    IN  \/ \E existing \in found :
              LET tbl == add_session(swept, [existing EXCEPT !.name = name,
                                                             !.last_heartbeat = now])
              IN  /\ sessions' = tbl
                  /\ ret' = [op |-> "register_session", session_id |-> existing.id,
                             display_id |-> existing.display_id, name |-> name,
                             machine |-> machine, cwd |-> cwd, repo |-> repo,
                             client_id |-> client_id,
                             active_sessions |-> session_count(tbl),
                             cursor |-> IF Truthy(existing.last_cursor)
                                        THEN existing.last_cursor
                                        ELSE SQLiteStorage_get_cursor(events),
                             resumed |-> TRUE]
                  /\ regs' = Standing(regs, swept) \cup Reg(existing.id)
                  /\ UNCHANGED <<events, seq>>
        \/ /\ found = {}
           /\ \E session_id \in (IF Truthy(client_id) THEN {client_id}
                                 ELSE uuid4(sessions)),
                 display_id \in DisplayIds :
                 LET tbl == add_session(swept,
                                [id |-> session_id, display_id |-> display_id,
                                 name |-> name, machine |-> machine, cwd |-> cwd,
                                 repo |-> repo, registered_at |-> now,
                                 last_heartbeat |-> now, client_id |-> client_id,
                                 last_cursor |-> None, deleted_at |-> NoTime])
                     e == add_event(events, seq, "session_registered",
                                    <<name, "started on", machine, cwd>>, session_id,
                                    "all", now)
                 IN  /\ sessions' = tbl
                     /\ events' = events \cup {e}
                     /\ seq' = e.id
                     /\ ret' = [op |-> "register_session", session_id |-> session_id,
                                display_id |-> display_id, name |-> name,
                                machine |-> machine, cwd |-> cwd, repo |-> repo,
                                client_id |-> client_id,
                                active_sessions |-> session_count(tbl),
                                cursor |-> PyStr(e.id), resumed |-> FALSE]
                     /\ regs' = Standing(regs, swept) \cup Reg(session_id)
    /\ UNCHANGED <<now, procs, call, poll, calls, db>>

\* What a call of send_notification does: the notifier ran ("sent"), it was
\* missing or exited non-zero (False is returned: "failed"), or subprocess.run
\* raised something other than CalledProcessError ("raised")
Deliveries == {"sent", "failed", "raised"}

\* The environment of a call with DEV_MODE unset and a notifier that works
Quiet == [DEV_MODE |-> FALSE, dm |-> "sent", dev |-> "sent"]

\* channel.split(":", 1)[1] of the channels that start with "session:", None
\* for the other channels
ChannelTarget(channel) ==
    CASE channel = "session:7" -> <<"7">>
      [] channel = "session:u1" -> <<"u", "1">>
      [] channel = "session:" -> <<>>
      [] OTHER -> None

\* _notify_dm_recipient: what became of the notification. The except clause
\* takes every Exception of send_notification.
notify_dm_recipient(tbl, channel, delivery) ==
    IF ChannelTarget(channel) = None \/ ChannelTarget(channel) = <<>> THEN "skipped"
    ELSE IF get_session(tbl, ChannelTarget(channel)) = {} THEN "skipped"
    ELSE IF delivery = "raised" THEN "logged"
    ELSE delivery

\* _dev_notify raises what send_notification raises
dev_notify(env) == env.DEV_MODE /\ env.dev = "raised"

\* publish_event(event_type, payload, session_id, channel) in an environment:
\* DEV_MODE, and what the notifier does for the direct message and for the
\* dev-mode notification
publish_event(event_type, payload, session_id, channel, env) ==
    /\ LET beat == auto_heartbeat(sessions, session_id, now)
           dm == notify_dm_recipient(beat, channel, env.dm)
           e == add_event(events, seq, event_type, payload,
                          IF Truthy(session_id) THEN session_id ELSE Anonymous,
                          channel, now)
       IN  /\ sessions' = beat
           /\ events' = events \cup {e}
           /\ seq' = e.id
           /\ ret' = IF dev_notify(env)
                     THEN [op |-> "publish_event", raised |-> TRUE,
                           event_type |-> event_type, payload |-> payload,
                           channel |-> channel, session_id |-> session_id, dm |-> dm]
                     ELSE [op |-> "publish_event", raised |-> FALSE, event_id |-> e.id,
                           event_type |-> event_type, payload |-> payload,
                           channel |-> channel, session_id |-> session_id, dm |-> dm]
    /\ UNCHANGED <<now, procs, call, poll, regs, calls, db>>

\* a _get_implicit_channels that subscribes a session to the broadcast
\* channel only
implicit_channels_scoped(session_id) ==
    IF Truthy(session_id) THEN <<"all">> ELSE None

\* _get_implicit_channels: None, no filtering
get_implicit_channels(session_id) == None

\* A get_events that stores the pagination cursor of every poll, of an empty
\* batch too
get_events_call_marking(cursor, limit, session_id, order, channel, resume, event_types) ==
    LET beat == auto_heartbeat(sessions, session_id, now)
        swept == cleanup_stale_sessions(beat, now)
        r == SQLiteStorage_get_events(events, cursor, limit, None, order, event_types)
    IN  [sessions |-> IF ~r.raised /\ Truthy(session_id)
                      THEN update_session_cursor(swept, session_id, r.next_cursor)
                      ELSE swept,
         result |-> r]

\* get_events(cursor, limit, session_id, order, channel, resume, event_types);
\* channel "" is "not given". The sessions table as the call leaves it, and
\* the result of its storage query.
get_events_call(cursor, limit, session_id, order, channel, resume, event_types) ==
    LET beat == auto_heartbeat(sessions, session_id, now)
        own == get_session(beat, session_id)
        from == IF resume /\ Truthy(session_id) /\ cursor = None
                   /\ \E r \in own : Truthy(r.last_cursor)
                THEN (CHOOSE r \in own : TRUE).last_cursor ELSE cursor
        swept == cleanup_stale_sessions(beat, now)
        channels == IF channel # "" THEN <<channel>>
                    ELSE get_implicit_channels(session_id)
        r == SQLiteStorage_get_events(events, from, limit, channels, order, event_types)
        high_water_mark == PyStr(MaxOf({r.events[i].id : i \in 1..Len(r.events)}))
    IN  [sessions |-> IF ~r.raised /\ Truthy(session_id) /\ r.events # <<>>
                      THEN update_session_cursor(swept, session_id, high_water_mark)
                      ELSE swept,
         result |-> r]

\* The tool get_events
get_events(cursor, limit, session_id, order, channel, resume, event_types) ==
    LET c == get_events_call(cursor, limit, session_id, order, channel, resume,
                             event_types)
    IN  /\ sessions' = c.sessions
        /\ ret' = [op |-> "get_events", result |-> c.result]
        /\ UNCHANGED <<events, seq, now, procs, call, poll, regs, calls, db>>

\* unregister_session(session_id, client_id): the outcomes of the call, each
\* the tables as the call leaves them and the dict it returns (fetchone of
\* find_session_by_client takes one of the rows found)
unregister_session_call(session_id_arg, client_id) ==
    LET byClient == Truthy(client_id) /\ ~Truthy(session_id_arg)
        found == find_session_by_client(sessions, LocalHost, client_id)
        Fail(session_id, by) ==
            [sessions |-> sessions, events |-> events, seq |-> seq,
             ret |-> [op |-> "unregister_session", error |-> TRUE,
                      session_id |-> session_id, client_id |-> by]]
        Done(session) ==
            LET tbl == delete_session(sessions, session.id, now)
                e == add_event(events, seq, "session_unregistered",
                               <<session.name, "ended on", session.machine>>,
                               session.id, "all", now)
            IN  [sessions |-> tbl, events |-> events \cup {e}, seq |-> e.id,
                 ret |-> [op |-> "unregister_session", error |-> FALSE,
                          session_id |-> session.id,
                          display_id |-> session.display_id,
                          active_sessions |-> session_count(tbl)]]
        ById(session_id) ==
            IF get_session(sessions, session_id) = {} THEN {Fail(session_id, None)}
            ELSE {Done(session) : session \in get_session(sessions, session_id)}
    IN  IF byClient
        THEN IF found = {} THEN {Fail(None, client_id)}
             ELSE UNION {ById(f.id) : f \in found}
        ELSE IF ~Truthy(session_id_arg) THEN {Fail(None, None)}
        ELSE ById(session_id_arg)

\* The tool unregister_session
unregister_session(session_id_arg, client_id) ==
    /\ \E c \in unregister_session_call(session_id_arg, client_id) :
          /\ sessions' = c.sessions
          /\ events' = c.events
          /\ seq' = c.seq
          /\ ret' = c.ret
    /\ UNCHANGED <<now, procs, call, poll, regs, calls, db>>

\* The liveness check of a listed session
Alive(s) == is_client_alive(s.client_id, s.machine = LocalHost, procs)

\* _get_live_sessions: soft-delete the listed sessions whose client is dead,
\* up to the first session whose check raises
RECURSIVE Evict(_, _, _)
Evict(tbl, listed, ts) ==
    IF listed = <<>> \/ Alive(Head(listed)).raised THEN tbl
    ELSE IF Alive(Head(listed)).result THEN Evict(tbl, Tail(listed), ts)
    ELSE Evict(delete_session(tbl, Head(listed).id, ts), Tail(listed), ts)

\* list_sessions(): the live sessions, or raised when a liveness check raised
list_sessions ==
    LET swept == cleanup_stale_sessions(sessions, now)
    IN  /\ \E listed \in SQLiteStorage_list_sessions(swept) :
              /\ sessions' = Evict(swept, listed, now)
              /\ ret' = IF \E i \in 1..Len(listed) : Alive(listed[i]).raised
                        THEN [op |-> "list_sessions", raised |-> TRUE, result |-> <<>>]
                        ELSE [op |-> "list_sessions", raised |-> FALSE,
                              result |-> SelectSeq(listed, LAMBDA s : Alive(s).result)]
        /\ UNCHANGED <<events, seq, now, procs, call, poll, regs, calls, db>>

\* Time passes
Tick(d) ==
    /\ now + d <= MaxTicks * (SESSION_TIMEOUT + 1)
    /\ now' = now + d
    /\ UNCHANGED <<sessions, events, seq, procs, ret, call, poll, regs, calls, db>>

\* A client process of the local host exits
Exit(pid) ==
    /\ procs[pid] # "gone"
    /\ procs' = [procs EXCEPT ![pid] = "gone"]
    /\ UNCHANGED <<sessions, events, seq, now, ret, call, poll, regs, calls, db>>

Names == {"n1"}
Machines == {"", "m2"}
Cwds == {<<"", "r", "x">>}
SessionIdArgs == {None, <<"7">>}

\* The events table has room for the row a call may append
Room(n) == Cardinality(events) < n

Register(n) ==
    /\ Room(n)
    /\ \E name \in Names, m \in Machines, c \in Cwds, k \in {None, <<"7">>} :
          register_session(name, m, c, k)

Publish(n) ==
    /\ Room(n)
    /\ \E sid \in SessionIdArgs : publish_event("A", "p", sid, "all", Quiet)

GetEvents ==
    \E a \in {<<None, "desc", FALSE>>, <<(<<"7">>), "asc", FALSE>>,
              <<(<<"7">>), "desc", FALSE>>, <<(<<"7">>), "asc", TRUE>>} :
        get_events(None, MaxLimit, a[1], a[2], "", a[3], None)

Unregister(n) ==
    /\ Room(n)
    /\ \E a \in {<<(<<"7">>), None>>, <<None, (<<"7">>)>>, <<(<<"u", "1">>), None>>} :
          unregister_session(a[1], a[2])

\* The tools, called one after another while the clock runs
Next ==
    \/ Register(MaxEvents)
    \/ Publish(MaxEvents)
    \/ GetEvents
    \/ Unregister(MaxEvents)
    \/ list_sessions
    \/ \E d \in {SESSION_TIMEOUT + 1} : Tick(d)
    \/ \E pid \in Pids : Exit(pid)

Spec == Init /\ [][Next]_vars

\* The tools, called one after another within one timeout period
NextTools ==
    \/ Register(MaxLog)
    \/ Publish(MaxLog)
    \/ GetEvents
    \/ Unregister(MaxLog)
    \/ list_sessions
    \/ \E pid \in Pids : Exit(pid)

SpecTools == Init /\ [][NextTools]_vars

----------------------------------------------------------------------------
(* A client that registers and then polls, in asc order, from the cursor   *)
(* register_session handed it                                              *)

\* The client keeps the cursor of the new session register_session returned
FollowStart(own) ==
    /\ ret.op = "register_session" /\ ~ret.resumed
    /\ poll' = [active |-> TRUE, order |-> "asc", limit |-> 0, channels |-> None,
                event_types |-> None, cursor |-> ret.cursor, seen |-> <<>>,
                done |-> FALSE, startSeq |-> seq, pages |-> 0,
                session_id |-> IF own THEN ret.session_id ELSE None,
                registered |-> events, log |-> events]
    /\ UNCHANGED <<sessions, events, seq, now, procs, ret, call, regs, calls, db>>

\* get_events(cursor, limit, session_id, order="asc") with the cursor kept,
\* which then becomes the next_cursor returned. After an empty batch the
\* client polls again when the log has grown.
FollowNext(limit) ==
    /\ poll.active /\ ~(poll.done /\ poll.log = events)
    /\ LET c == get_events_call(poll.cursor, limit, poll.session_id, "asc", "",
                                FALSE, None)
       IN  /\ sessions' = c.sessions
           /\ ret' = [op |-> "get_events", result |-> c.result]
           /\ poll' = [poll EXCEPT !.limit = limit,
                                   !.cursor = c.result.next_cursor,
                                   !.seen = @ \o BatchIds(c.result.events),
                                   !.done = (c.result.events = <<>>),
                                   !.pages = @ + 1,
                                   !.log = events]
    /\ UNCHANGED <<events, seq, now, procs, call, regs, calls, db>>

\* register_session from the local host, with and without a client_id
RegisterLocal(n) ==
    /\ Room(n)
    /\ \E name \in Names, c \in Cwds, k \in {None, <<"7">>} :
          register_session(name, "", c, k)

NextFollow ==
    \/ RegisterLocal(MaxLog)
    \/ Publish(MaxLog)
    \/ \E own \in BOOLEAN : FollowStart(own)
    \/ \E limit \in PollLimits : FollowNext(limit)

SpecFollow == Init /\ [][NextFollow]_vars

----------------------------------------------------------------------------

(* One get_events call, its arguments but session_id fixed, made by several *)
(* callers against the same log                                            *)

\* Channels events are published on: the broadcast channel, another
\* session's channel and another repository's channel
PublishChannels == {"all", "session:u1", "repo:y"}

BroadcastCalls ==
    [cursor : {None, <<"1">>,
               <<"9", "2", "2", "3", "3", "7", "2", "0", "3", "6", "8", "5", "4", "7", "7", "5", "8", "0", "8">>},
     limit : PollLimits, order : Orders, channel : {"", "repo:y"},
     event_types : {None, <<"A">>}]

\* The callers: no session_id, a session that registers and unregisters, and
\* an id that never registers
Askers == {None, <<"7">>, <<"k">>}

InitBroadcast ==
    /\ sessions = {}
    /\ events = {}
    /\ seq = 0
    /\ now = 0
    /\ procs = [p \in Pids |-> "own"]
    /\ ret = NoCall
    /\ call \in BroadcastCalls
    /\ poll = NoPoll
    /\ regs = {}
    /\ calls = [t \in Threads |-> Idle]
    /\ db = OpenedStore

\* publish_event on a channel
PublishOn(n) ==
    /\ Room(n)
    /\ \E c \in PublishChannels : publish_event("A", "p", None, c, Quiet)

\* get_events with the arguments under study; resume is passed only with a
\* cursor, where it has no effect
Ask ==
    \E session_id \in Askers, resume \in (IF call.cursor = None THEN {FALSE} ELSE BOOLEAN) :
        get_events(call.cursor, call.limit, session_id, call.order, call.channel,
                   resume, call.event_types)

\* unregister_session of the session that registers
UnregisterAsker(n) ==
    /\ Room(n)
    /\ unregister_session(<<"7">>, None)

NextBroadcast ==
    \/ RegisterLocal(MaxEvents)
    \/ PublishOn(MaxEvents)
    \/ UnregisterAsker(MaxEvents)
    \/ Ask

SpecBroadcast == InitBroadcast /\ [][NextBroadcast]_vars

----------------------------------------------------------------------------

----------------------------------------------------------------------------
(* publish_event in every environment: with and without DEV_MODE, the      *)
(* notifier working, failing or raising, the sender and the target of a    *)
(* direct message registered, unregistered or unknown                      *)

Envs == [DEV_MODE : BOOLEAN, dm : Deliveries, dev : Deliveries]

\* Senders: none given, a session that registers and unregisters, an id
\* that never registers
Senders == {None, <<"7">>, <<"k">>}

\* The broadcast channel, the channel of the session that registers, of a
\* session that never does, and a session channel that names no session
DmChannels == {"all", "session:7", "session:u1", "session:"}

PublishAs(n) ==
    /\ Room(n)
    /\ \E t \in EventTypes, session_id \in Senders, c \in DmChannels, env \in Envs :
          publish_event(t, "p", session_id, c, env)

NextPublish ==
    \/ RegisterLocal(MaxLog)
    \/ UnregisterAsker(MaxLog)
    \/ PublishAs(MaxLog)

SpecPublish == Init /\ [][NextPublish]_vars

----------------------------------------------------------------------------

(* unregister_session by session_id, by client_id and by both *)

UnregisterArgs ==
    [session_id : {None, <<"7">>, <<"u", "1">>}, client_id : {None, <<"7">>, <<"k">>}]

\* unregister_session; `call` keeps the arguments of the call
UnregisterBy(n) ==
    /\ Room(n)
    /\ \E a \in UnregisterArgs :
          /\ \E c \in unregister_session_call(a.session_id, a.client_id) :
                /\ sessions' = c.sessions
                /\ events' = c.events
                /\ seq' = c.seq
                /\ ret' = c.ret
          /\ call' = [op |-> "unregister_session", session_id |-> a.session_id,
                      client_id |-> a.client_id]
    /\ UNCHANGED <<now, procs, poll, regs, calls, db>>

NextUnregister ==
    \/ Register(MaxLog)
    \/ UnregisterBy(MaxLog)

SpecUnregister == Init /\ [][NextUnregister]_vars

----------------------------------------------------------------------------

(* get_events with and without resume, cursor and session_id *)

ResumeCalls ==
    [cursor : {None, <<"1">>}, limit : {1}, session_id : {None, <<"7">>},
     order : Orders, resume : BOOLEAN]

\* publish_event on the broadcast channel, no session_id given
PublishPlain(n) ==
    /\ Room(n)
    /\ publish_event("A", "p", None, "all", Quiet)

\* get_events; `call` keeps the arguments of the call
GetEventsWith ==
    /\ \E a \in ResumeCalls :
          LET c == get_events_call(a.cursor, a.limit, a.session_id, a.order, "",
                                   a.resume, None)
          IN  /\ sessions' = c.sessions
              /\ ret' = [op |-> "get_events", result |-> c.result]
              /\ call' = [op |-> "get_events", cursor |-> a.cursor, limit |-> a.limit,
                          session_id |-> a.session_id, order |-> a.order,
                          resume |-> a.resume]
    /\ UNCHANGED <<events, seq, now, procs, poll, regs, calls, db>>

NextResume ==
    \/ RegisterLocal(MaxLog)
    \/ PublishPlain(MaxLog)
    \/ UnregisterAsker(MaxLog)
    \/ GetEventsWith

SpecResume == Init /\ [][NextResume]_vars

----------------------------------------------------------------------------

(* The tools while the clock runs past the session timeout; `call` keeps   *)
(* the arguments of get_events                                             *)

NextSweep ==
    \/ RegisterLocal(MaxEvents)
    \/ GetEventsWith
    \/ \E d \in {SESSION_TIMEOUT + 1} : Tick(d)

SpecSweep == Init /\ [][NextSweep]_vars

----------------------------------------------------------------------------

(* Sessions that poll after the timeout has passed; one client registers   *)
(* with the client_id "anonymous"                                          *)

RefreshKeys == {None, <<"7">>, Anonymous}

RegisterKey(n) ==
    /\ Room(n)
    /\ \E name \in Names, c \in Cwds, k \in RefreshKeys : register_session(name, "", c, k)

\* get_events(limit=1, session_id); `call` keeps the arguments of the call
GetEventsFor ==
    /\ \E session_id \in RefreshKeys :
          LET c == get_events_call(None, 1, session_id, "desc", "", FALSE, None)
          IN  /\ sessions' = c.sessions
              /\ ret' = [op |-> "get_events", result |-> c.result]
              /\ call' = [op |-> "get_events", cursor |-> None, limit |-> 1,
                          session_id |-> session_id, order |-> "desc",
                          resume |-> FALSE]
    /\ UNCHANGED <<events, seq, now, procs, poll, regs, calls, db>>

NextRefresh ==
    \/ RegisterKey(MaxEvents)
    \/ GetEventsFor
    \/ \E d \in {SESSION_TIMEOUT + 1} : Tick(d)

SpecRefresh == Init /\ [][NextRefresh]_vars

----------------------------------------------------------------------------

(* A client that registers again under another name and from another      *)
(* directory, while the clock counts seconds                               *)

NewNames == {"n1", "n2"}
NewCwds == {<<"", "r", "x">>, <<"", "q", "y">>}

RegisterNamed(n) ==
    /\ Room(n)
    /\ \E name \in NewNames, c \in NewCwds : register_session(name, "", c, <<"7">>)

NextRename ==
    \/ RegisterNamed(MaxEvents)
    \/ GetEvents
    \/ Unregister(MaxEvents)
    \/ now < MaxBeats /\ Tick(1)

SpecRename == Init /\ [][NextRename]_vars

----------------------------------------------------------------------------

(* Storage-level calls on the sessions table, the clock counting seconds *)

StoredIds == {<<"7">>, <<"u", "1">>}
Timeouts == {0, 1, SESSION_TIMEOUT}

\* storage.add_session(Session(...)) of a session heard of just now
StoreSession(session_id, machine) ==
    /\ sessions' = add_session(sessions,
                       [id |-> session_id, display_id |-> "brave-tiger", name |-> "n1",
                        machine |-> machine, cwd |-> <<"", "r", "x">>, repo |-> "x",
                        registered_at |-> now, last_heartbeat |-> now,
                        client_id |-> IF session_id \in Pids THEN session_id ELSE None,
                        last_cursor |-> None, deleted_at |-> NoTime])
    /\ ret' = [op |-> "add_session"]
    /\ UNCHANGED <<events, seq, now, procs, call, poll, regs, calls, db>>

\* storage.update_heartbeat(session_id, datetime.now())
Beat(session_id) ==
    /\ sessions' = update_heartbeat(sessions, session_id, now)
    /\ ret' = [op |-> "update_heartbeat", session_id |-> session_id,
               result |-> Matched(sessions, session_id) # {}]
    /\ UNCHANGED <<events, seq, now, procs, call, poll, regs, calls, db>>

\* storage.update_session_cursor(session_id, cursor)
SetCursor(session_id, cursor) ==
    /\ sessions' = update_session_cursor(sessions, session_id, cursor)
    /\ ret' = [op |-> "update_session_cursor", session_id |-> session_id,
               result |-> Matched(sessions, session_id) # {}]
    /\ UNCHANGED <<events, seq, now, procs, call, poll, regs, calls, db>>

\* storage.delete_session(session_id)
Delete(session_id) ==
    /\ sessions' = delete_session(sessions, session_id, now)
    /\ ret' = [op |-> "delete_session", session_id |-> session_id,
               result |-> Matched(sessions, session_id) # {}]
    /\ UNCHANGED <<events, seq, now, procs, call, poll, regs, calls, db>>

\* storage.cleanup_stale_sessions(timeout_seconds)
Sweep(timeout_seconds) ==
    LET r == SQLiteStorage_cleanup_stale_sessions(sessions, now, timeout_seconds)
    IN  /\ sessions' = r.table
        /\ ret' = [op |-> "cleanup_stale_sessions", timeout_seconds |-> timeout_seconds,
                   result |-> r.rowcount]
        /\ UNCHANGED <<events, seq, now, procs, call, poll, regs, calls, db>>

\* storage.list_sessions()
ListStored ==
    /\ \E listed \in SQLiteStorage_list_sessions(sessions) :
          ret' = [op |-> "storage.list_sessions", result |-> listed]
    /\ UNCHANGED <<sessions, events, seq, now, procs, call, poll, regs, calls, db>>

\* A second passes
Second == now < MaxBeats /\ Tick(1)

NextStore ==
    \/ \E id \in StoredIds, m \in {LocalHost, "m2"} : StoreSession(id, m)
    \/ \E id \in StoredIds : Beat(id)
    \/ \E id \in StoredIds : SetCursor(id, <<"1">>)
    \/ \E id \in StoredIds : Delete(id)
    \/ \E t \in Timeouts : Sweep(t)
    \/ ListStored
    \/ Second

SpecStore == Init /\ [][NextStore]_vars

\* Polls and publishes under a session id, between storage-level writes of
\* the sessions table
NextTouch ==
    \/ \E id \in Pids : StoreSession(id, LocalHost)
    \/ \E id \in Pids : Beat(id)
    \/ \E id \in Pids : SetCursor(id, <<"1">>)
    \/ \E id \in Pids : Delete(id)
    \/ Publish(MaxEvents)
    \/ GetEvents
    \/ Second

SpecTouch == Init /\ [][NextTouch]_vars

\* Registrations, polls, publishes and listings while the clock counts seconds
NextBeat ==
    \/ Register(MaxEvents)
    \/ Publish(MaxEvents)
    \/ GetEvents
    \/ list_sessions
    \/ Second

SpecBeat == Init /\ [][NextBeat]_vars

\* The least process id that os.kill cannot take: 2^31
BigPid == <<"2", "1", "4", "7", "4", "8", "3", "6", "4", "8">>

\* client_id of register_session: absent, empty, a pid, the id uuid4 gave a
\* keyless session, a number that is no pid
RegisterKeys == {None, <<>>, <<"7">>, <<"u", "1">>, BigPid}

RegisterAny(n) ==
    /\ Room(n)
    /\ \E name \in Names, m \in Machines, c \in Cwds, k \in RegisterKeys :
          register_session(name, m, c, k)

\* Registrations under any client_id, unregistrations, listings, client exits
NextRegistry ==
    \/ RegisterAny(MaxLog)
    \/ Unregister(MaxLog)
    \/ list_sessions
    \/ \E pid \in Pids : Exit(pid)

SpecRegistry == Init /\ [][NextRegistry]_vars

----------------------------------------------------------------------------
(* The liveness check, called on a client_id of any shape *)

\* client_id strings: absent, empty, no number, pids written plainly, padded
\* and signed, a pid no process has, the special pids 0 and -1, and the
\* numbers around the ends of the 32-bit range
AliveKeys ==
    {None, <<>>, <<"a">>, <<"7">>, <<" ", "7">>, <<"+", "7">>, <<"0", "7">>, <<"8">>,
     <<"0">>, <<"-", "1">>,
     <<"2", "1", "4", "7", "4", "8", "3", "6", "4", "7">>, BigPid,
     <<"-", "2", "1", "4", "7", "4", "8", "3", "6", "4", "8">>,
     <<"-", "2", "1", "4", "7", "4", "8", "3", "6", "4", "9">>}

AliveCalls == [client_id : AliveKeys, is_local : BOOLEAN]

\* Some check is about to be made; each process runs as the server's user,
\* runs as another user, or has exited
InitAlive ==
    /\ sessions = {}
    /\ events = {}
    /\ seq = 0
    /\ now = 0
    /\ procs \in [Pids -> {"own", "foreign", "gone"}]
    /\ ret = NoCall
    /\ call \in AliveCalls
    /\ poll = NoPoll
    /\ regs = {}
    /\ calls = [t \in Threads |-> Idle]
    /\ db = OpenedStore

\* is_client_alive(client_id, is_local)
Probe ==
    /\ ret' = [op |-> "is_client_alive",
               outcome |-> is_client_alive(call.client_id, call.is_local, procs)]
    /\ UNCHANGED <<sessions, events, seq, now, procs, call, poll, regs, calls, db>>

NextAlive ==
    \/ Probe
    \/ \E pid \in Pids : Exit(pid)

SpecAlive == InitAlive /\ [][NextAlive]_vars

----------------------------------------------------------------------------
(* Opening a store file that an earlier version of the program left behind *)

MaxStored == 2

\* The sessions table before display_id and deleted_at (schema version 1),
\* before last_cursor, and before client_id (the pid-based schema)
V1Columns == SessionColumns \ {"display_id", "deleted_at"}
V1OldColumns == V1Columns \ {"last_cursor"}
PidColumns == (V1OldColumns \ {"client_id"}) \cup {"pid"}
\* The events table before channel
OldEventColumns == EventColumns \ {"channel"}

\* A stored session row of the given columns
StoredRow(columns, id, machine, client_id) ==
    [c \in columns |->
        CASE c = "id" -> id
          [] c = "client_id" -> client_id
          [] c = "machine" -> machine
          [] c = "display_id" -> "brave-tiger"
          [] c = "name" -> "n1"
          [] c = "cwd" -> <<"", "r", "x">>
          [] c = "repo" -> "x"
          [] c = "last_cursor" -> None
          [] c = "deleted_at" -> NoTime
          [] OTHER -> 0]

\* A stored event row of the given columns
StoredEvent(columns, id, session_id) ==
    [c \in columns |->
        CASE c = "id" -> id
          [] c = "session_id" -> session_id
          [] c = "event_type" -> "A"
          [] c = "payload" -> "p"
          [] c = "channel" -> "all"
          [] OTHER -> 0]

\* Ids and client ids of the stored sessions: "k" is shared, "b" is also an id
StoredSessionIds == {<<"a">>, <<"b">>, <<"c">>}
StoredClientIds == {None, <<>>, <<"k">>, <<"b">>}

\* The session tables a store may hold: rows of distinct ids
StoredSessions(columns) ==
    {tbl \in SUBSET {StoredRow(columns, id, IF id = <<"a">> THEN "m1" ELSE "m2", k) :
                         id \in StoredSessionIds, k \in StoredClientIds} :
        /\ Cardinality(tbl) <= MaxStored
        /\ \A r, q \in tbl : r.id = q.id => r = q}

\* The schemas earlier versions created, with the version rows they recorded:
\* none before versioning, one row per migration in the old scheme
PriorSchemas ==
    {[columns |-> NoStore.columns, versions |-> {}]}
    \cup {[columns |-> [schema_version |-> NoTable, sessions |-> PidColumns,
                        events |-> OldEventColumns], versions |-> {}]}
    \cup {[columns |-> [schema_version |-> NoTable, sessions |-> s, events |-> e],
           versions |-> {}] :
             s \in {V1OldColumns, V1Columns}, e \in {OldEventColumns, EventColumns}}
    \cup {[columns |-> [schema_version |-> VersionColumns, sessions |-> s, events |-> e],
           versions |-> v] :
             s \in {V1OldColumns, V1Columns}, e \in {OldEventColumns, EventColumns},
             v \in {{}, {0}, {1}, {0, 1}}}
    \cup {[columns |-> [schema_version |-> VersionColumns, sessions |-> SessionColumns,
                        events |-> EventColumns], versions |-> v] :
             v \in {{SCHEMA_VERSION}, {1, SCHEMA_VERSION}}}

InitOpen ==
    /\ db \in PriorSchemas
    /\ sessions \in (IF db.columns.sessions = NoTable THEN {{}}
                     ELSE StoredSessions(db.columns.sessions))
    /\ events \in (IF db.columns.events = NoTable THEN {{}}
                   ELSE {{}, {StoredEvent(db.columns.events, 1, <<"a">>)}})
    /\ seq = Cardinality(events)
    /\ now = 0
    /\ procs = [p \in Pids |-> "own"]
    /\ ret = NoCall
    /\ call = NoCall
    /\ poll = NoPoll
    /\ regs = {}
    /\ calls = [t \in Threads |-> Idle]

\* All orders a scan may yield a set of ids in
ScanOrders(ids) ==
    {o \in [1..Cardinality(ids) -> ids] : \A i, j \in DOMAIN o : i # j => o[i] # o[j]}

\* SQLiteStorage(db_path): _init_db on the store file
Open ==
    /\ \E order \in ScanOrders({r.id : r \in sessions}) :
          LET o == init_db([columns |-> db.columns, versions |-> db.versions,
                            sessions |-> sessions, events |-> events], order)
          IN  /\ db' = [columns |-> o.store.columns, versions |-> o.store.versions]
              /\ sessions' = o.store.sessions
              /\ events' = o.store.events
              /\ ret' = [op |-> "_init_db", raised |-> o.raised]
    /\ UNCHANGED <<seq, now, procs, call, poll, regs, calls>>

NextOpen == Open

SpecOpen == InitOpen /\ [][NextOpen]_vars

----------------------------------------------------------------------------

(* register_session run by several threads or server processes at once.    *)
(* Every storage call opens its own connection and commits on its own, so  *)
(* one call of the tool is a sequence of transactions, and the             *)
(* transactions of two calls interleave in any order.                      *)

\* The call arrives: its arguments are bound
RegCall(t, name, machine_arg, cwd, client_id) ==
    /\ calls[t].pc = "idle"
    /\ calls' = [calls EXCEPT ![t] =
                   [Idle EXCEPT !.pc = "sweep", !.name = name,
                                !.machine = IF machine_arg # "" THEN machine_arg
                                            ELSE LocalHost,
                                !.cwd = cwd, !.repo = extract_repo_from_cwd(cwd),
                                !.client_id = client_id]]
    /\ UNCHANGED <<sessions, events, seq, now, procs, ret, call, poll, regs, db>>

\* storage.cleanup_stale_sessions()
RegSweep(t) ==
    /\ calls[t].pc = "sweep"
    /\ sessions' = cleanup_stale_sessions(sessions, now)
    /\ calls' = [calls EXCEPT ![t].pc = "find"]
    /\ UNCHANGED <<events, seq, now, procs, ret, call, poll, regs, db>>

\* existing = storage.find_session_by_client(machine, client_id)
RegFind(t) ==
    LET c == calls[t]
        found == IF c.client_id # None
                 THEN find_session_by_client(sessions, c.machine, c.client_id) ELSE {}
    IN  /\ c.pc = "find"
        /\ \/ \E existing \in found :
                 calls' = [calls EXCEPT ![t].pc = "write", ![t].existing = {existing}]
           \/ /\ found = {}
              /\ calls' = [calls EXCEPT ![t].pc = "write"]
        /\ UNCHANGED <<sessions, events, seq, now, procs, ret, call, poll, regs, db>>

\* storage.add_session(existing) or storage.add_session(session)
RegWrite(t) ==
    LET c == calls[t]
    IN  /\ c.pc = "write"
        /\ \/ \E existing \in c.existing :
                 /\ sessions' = add_session(sessions,
                                     [existing EXCEPT !.name = c.name,
                                                      !.last_heartbeat = now])
                 /\ calls' = [calls EXCEPT ![t].pc = "cursor",
                                           ![t].session_id = existing.id,
                                           ![t].display_id = existing.display_id,
                                           ![t].resumed = TRUE]
           \/ /\ c.existing = {}
              /\ \E session_id \in (IF Truthy(c.client_id) THEN {c.client_id}
                                    ELSE uuid4(sessions)),
                    display_id \in DisplayIds :
                    /\ sessions' = add_session(sessions,
                                        [id |-> session_id, display_id |-> display_id,
                                         name |-> c.name, machine |-> c.machine,
                                         cwd |-> c.cwd, repo |-> c.repo,
                                         registered_at |-> now, last_heartbeat |-> now,
                                         client_id |-> c.client_id,
                                         last_cursor |-> None, deleted_at |-> NoTime])
                    /\ calls' = [calls EXCEPT ![t].pc = "event",
                                              ![t].session_id = session_id,
                                              ![t].display_id = display_id]
        /\ UNCHANGED <<events, seq, now, procs, ret, call, poll, regs, db>>

\* resume_cursor = existing.last_cursor or storage.get_cursor()
RegCursor(t) ==
    LET c == calls[t]
    IN  /\ c.pc = "cursor"
        /\ \E existing \in c.existing :
              calls' = [calls EXCEPT ![t].pc = "count",
                                     ![t].cursor = IF Truthy(existing.last_cursor)
                                                   THEN existing.last_cursor
                                                   ELSE SQLiteStorage_get_cursor(events)]
        /\ UNCHANGED <<sessions, events, seq, now, procs, ret, call, poll, regs, db>>

\* registration_event = storage.add_event("session_registered", ...)
RegEvent(t) ==
    LET c == calls[t]
        e == add_event(events, seq, "session_registered",
                       <<c.name, "started on", c.machine, c.cwd>>, c.session_id,
                       "all", now)
    IN  /\ c.pc = "event"
        /\ events' = events \cup {e}
        /\ seq' = e.id
        /\ calls' = [calls EXCEPT ![t].pc = "count", ![t].cursor = PyStr(e.id)]
        /\ UNCHANGED <<sessions, now, procs, ret, call, poll, regs, db>>

\* "active_sessions": storage.session_count(); the result is complete
RegCount(t) ==
    /\ calls[t].pc = "count"
    /\ calls' = [calls EXCEPT ![t].pc = "done",
                              ![t].active_sessions = session_count(sessions)]
    /\ UNCHANGED <<sessions, events, seq, now, procs, ret, call, poll, regs, db>>

\* return
RegReturn(t) ==
    LET c == calls[t]
    IN  /\ c.pc = "done"
        /\ ret' = [op |-> "register_session", session_id |-> c.session_id,
                   display_id |-> c.display_id, name |-> c.name,
                   machine |-> c.machine, cwd |-> c.cwd, repo |-> c.repo,
                   client_id |-> c.client_id,
                   active_sessions |-> c.active_sessions,
                   cursor |-> c.cursor, resumed |-> c.resumed]
        /\ calls' = [calls EXCEPT ![t] = Idle]
        /\ UNCHANGED <<sessions, events, seq, now, procs, call, poll, regs, db>>

NextConc ==
    \/ /\ Room(MaxLog)
       /\ \E t \in Threads, name \in Names, m \in Machines, c \in Cwds, k \in ClientIds :
             RegCall(t, name, m, c, k)
    \/ \E t \in Threads : RegSweep(t)
    \/ \E t \in Threads : RegFind(t)
    \/ \E t \in Threads : RegWrite(t)
    \/ \E t \in Threads : RegCursor(t)
    \/ \E t \in Threads : RegEvent(t)
    \/ \E t \in Threads : RegCount(t)
    \/ \E t \in Threads : RegReturn(t)

SpecConc == Init /\ [][NextConc]_vars

----------------------------------------------------------------------------

(* unregister_session run by several threads at once, beside               *)
(* register_session and get_events: again every storage call is a          *)
(* transaction of its own                                                  *)

\* The call arrives: its arguments are bound
UnCall(t, session_id_arg, client_id) ==
    /\ calls[t].pc = "idle"
    /\ calls' = [calls EXCEPT ![t] =
                   [Idle EXCEPT !.pc = IF Truthy(client_id) /\ ~Truthy(session_id_arg)
                                       THEN "u_lookup"
                                       ELSE IF ~Truthy(session_id_arg) THEN "u_done"
                                       ELSE "u_get",
                                !.error = ~Truthy(client_id) /\ ~Truthy(session_id_arg),
                                !.machine = LocalHost,
                                !.session_id = session_id_arg,
                                !.client_id = client_id]]
    /\ UNCHANGED <<sessions, events, seq, now, procs, ret, call, poll, regs, db>>

\* session = storage.find_session_by_client(machine, client_id)
UnLookup(t) ==
    LET c == calls[t]
        found == find_session_by_client(sessions, c.machine, c.client_id)
    IN  /\ c.pc = "u_lookup"
        /\ \/ \E session \in found :
                 calls' = [calls EXCEPT ![t].pc = "u_get", ![t].session_id = session.id]
           \/ /\ found = {}
              /\ calls' = [calls EXCEPT ![t].pc = "u_done", ![t].error = TRUE]
        /\ UNCHANGED <<sessions, events, seq, now, procs, ret, call, poll, regs, db>>

\* session = storage.get_session(session_id)
UnGet(t) ==
    LET c == calls[t]
        found == get_session(sessions, c.session_id)
    IN  /\ c.pc = "u_get"
        /\ \/ \E session \in found :
                 calls' = [calls EXCEPT ![t].pc = "u_delete", ![t].existing = {session},
                                        ![t].name = session.name,
                                        ![t].display_id = session.display_id]
           \/ /\ found = {}
              /\ calls' = [calls EXCEPT ![t].pc = "u_done", ![t].error = TRUE]
        /\ UNCHANGED <<sessions, events, seq, now, procs, ret, call, poll, regs, db>>

\* storage.delete_session(session_id): the bool it returns is not read
UnDelete(t) ==
    /\ calls[t].pc = "u_delete"
    /\ sessions' = delete_session(sessions, calls[t].session_id, now)
    /\ calls' = [calls EXCEPT ![t].pc = "u_event"]
    /\ UNCHANGED <<events, seq, now, procs, ret, call, poll, regs, db>>

\* storage.add_event("session_unregistered", ...)
UnEvent(t) ==
    LET c == calls[t]
    IN  /\ c.pc = "u_event"
        /\ \E session \in c.existing :
              LET e == add_event(events, seq, "session_unregistered",
                                 <<session.name, "ended on", session.machine>>,
                                 c.session_id, "all", now)
              IN  /\ events' = events \cup {e}
                  /\ seq' = e.id
        /\ calls' = [calls EXCEPT ![t].pc = "u_count"]
        /\ UNCHANGED <<sessions, now, procs, ret, call, poll, regs, db>>

\* "active_sessions": storage.session_count(); the result is complete
UnCount(t) ==
    /\ calls[t].pc = "u_count"
    /\ calls' = [calls EXCEPT ![t].pc = "u_done",
                              ![t].active_sessions = session_count(sessions)]
    /\ UNCHANGED <<sessions, events, seq, now, procs, ret, call, poll, regs, db>>

\* return
UnReturn(t) ==
    LET c == calls[t]
    IN  /\ c.pc = "u_done"
        /\ ret' = IF c.error
                  THEN [op |-> "unregister_session", error |-> TRUE,
                        session_id |-> c.session_id, client_id |-> c.client_id]
                  ELSE [op |-> "unregister_session", error |-> FALSE,
                        session_id |-> c.session_id, display_id |-> c.display_id,
                        active_sessions |-> c.active_sessions]
        /\ calls' = [calls EXCEPT ![t] = Idle]
        /\ UNCHANGED <<sessions, events, seq, now, procs, call, poll, regs, db>>

\* get_events of the session, run between two storage calls of the others
PollBetween ==
    get_events(None, MaxLimit, <<"7">>, "desc", "", FALSE, None)

NextRace ==
    \/ /\ Room(MaxLog)
       /\ \E t \in Threads, name \in Names, c \in Cwds : RegCall(t, name, "", c, <<"7">>)
    \/ \E t \in Threads : RegSweep(t)
    \/ \E t \in Threads : RegFind(t)
    \/ \E t \in Threads : RegWrite(t)
    \/ \E t \in Threads : RegCursor(t)
    \/ \E t \in Threads : RegEvent(t)
    \/ \E t \in Threads : RegCount(t)
    \/ \E t \in Threads : RegReturn(t)
    \/ /\ Room(MaxLog)
       /\ \E t \in Threads, a \in {<<(<<"7">>), None>>, <<None, (<<"7">>)>>, <<None, None>>} :
             UnCall(t, a[1], a[2])
    \/ \E t \in Threads : UnLookup(t)
    \/ \E t \in Threads : UnGet(t)
    \/ \E t \in Threads : UnDelete(t)
    \/ \E t \in Threads : UnEvent(t)
    \/ \E t \in Threads : UnCount(t)
    \/ \E t \in Threads : UnReturn(t)
    \/ PollBetween

SpecRace == Init /\ [][NextRace]_vars

----------------------------------------------------------------------------
(* Properties of the event log *)

\* C1: every row a call appends to the events table has an id greater than
\* the id of every row appended before it, whatever calls came in between.
C1_MonotonicIds ==
    [][\A e \in events' \ events : \A f \in events : e.id > f.id]_vars

\* Three tools have appended in turn: a registration, a publish, an unregister
C1_Witness ==
    \E e, f, g \in events :
        /\ e.event_type = "session_registered"
        /\ f.event_type = "A"
        /\ g.event_type = "session_unregistered"
        /\ e.id < f.id /\ f.id < g.id

Occurrences(s, x) == Cardinality({i \in 1..Len(s) : s[i] = x})

StrictlyIncreasing(s) == \A i, j \in 1..Len(s) : i < j => s[i] < s[j]

\* The rows a paginating client asked for: its fixed channel / type filter
PollWants(e) ==
    /\ poll.channels # None => InList(e.channel, poll.channels)
    /\ poll.event_types # None => InList(e.event_type, poll.event_types)

\* The id a next_cursor stands for (0 before the first non-empty page)
RECURSIVE MagValue(_)
MagValue(mag) ==
    IF mag = <<>> THEN 0 ELSE 10 * MagValue(SubSeq(mag, 1, Len(mag) - 1)) + mag[Len(mag)]

CursorId(cursor) == IF cursor = None THEN 0 ELSE MagValue(PyInt(cursor).mag)

\* C2: on a log with no appends since the first page, a desc pagination that
\* has reached its empty batch has returned every (wanted) event exactly once.
C2_DescVisitsEveryEventOnce ==
    (poll.active /\ poll.order = "desc" /\ poll.done /\ seq = poll.startSeq) =>
        \A e \in events :
            Occurrences(poll.seen, e.id) = (IF PollWants(e) THEN 1 ELSE 0)

\* C3: in desc order next_cursor is the least id of the batch and every event
\* returned for a cursor c is older than c; with ids 1,2,3 and cursor "2" the
\* batch is the event 1 alone and next_cursor is "1".
C3_DescContinuesTowardOlder ==
    (ret.op = "get_events" /\ call.order = "desc" /\ ~ret.result.raised) =>
        LET batch == ret.result.events
            c == PyInt(call.cursor)
        IN  /\ batch # <<>> =>
                  ret.result.next_cursor = PyStr(MinOf({batch[i].id : i \in 1..Len(batch)}))
            /\ (Truthy(call.cursor) /\ c.ok /\ c.mag # <<>> /\ ~c.neg) =>
                  \A i \in 1..Len(batch) : batch[i].id < MagValue(c.mag)
            /\ (IdsOf(events) = {1, 2, 3} /\ call.cursor = <<"2">> /\ call.limit >= 1
                   /\ ~Truthy(call.channels) /\ ~Truthy(call.event_types)) =>
                  (BatchIds(batch) = <<1>> /\ ret.result.next_cursor = <<"1">>)

\* C4: on a log with no appends since the first page, an asc pagination
\* reaches its empty batch within (wanted events + 1) calls, and has by then
\* returned every wanted event exactly once, in increasing id order.
C4_AscVisitsEveryEventOnce ==
    (poll.active /\ poll.order = "asc" /\ seq = poll.startSeq) =>
        LET wanted == {e \in events : PollWants(e)}
        IN  /\ poll.pages <= Cardinality(wanted) + 1
            /\ poll.done =>
                  /\ StrictlyIncreasing(poll.seen)
                  /\ {poll.seen[i] : i \in 1..Len(poll.seen)} = IdsOf(wanted)

\* An asc pagination of three pages over a filtered log has finished
C4_Witness ==
    /\ poll.active /\ poll.order = "asc" /\ poll.done /\ seq = poll.startSeq
    /\ poll.pages >= 3 /\ poll.channels # None
    /\ \E e \in events : ~PollWants(e)
    /\ \E e \in events : PollWants(e)

\* C5: whatever is appended between the pages of an asc pagination, no event
\* is returned twice, only events of the log are returned, and no wanted
\* event at or below next_cursor is missing from what was returned.
C5_AscStableUnderAppends ==
    (poll.active /\ poll.order = "asc") =>
        /\ \A e \in events : Occurrences(poll.seen, e.id) <= 1
        /\ \A i \in 1..Len(poll.seen) : poll.seen[i] \in IdsOf(events)
        /\ \A e \in events :
              (PollWants(e) /\ e.id <= CursorId(poll.cursor)) =>
                  Occurrences(poll.seen, e.id) = 1

\* Events were appended after the first page and were returned by a later one
C5_Witness ==
    /\ poll.active /\ poll.order = "asc" /\ poll.pages >= 2
    /\ seq > poll.startSeq
    /\ \E i \in 1..Len(poll.seen) : poll.seen[i] > poll.startSeq
    /\ \E e \in events : e.id > CursorId(poll.cursor)

C7_NeverFailsOnCursor ==
    ret.op = "get_events" =>
        /\ ~ret.result.raised
        /\ (call.cursor = None \/ call.cursor = <<>> \/ ~PyInt(call.cursor).ok) =>
              ret.result.events =
                  SQLiteStorage_get_events(events, None, call.limit, call.channels,
                                           call.order, call.event_types).events

\* C8: get_events returns exactly the first n events, in the requested id
\* order, of the events with id > c whose channel is in the channel list (if
\* given) and whose type is in the type list (if given and non-empty).
C8_FilterAndLimit ==
    ret.op = "get_events" =>
        LET batch == ret.result.events
            c == SinceId(call.cursor)
            wanted == {e \in events :
                          /\ IntGreater(e.id, c)
                          /\ call.channels # None => InList(e.channel, call.channels)
                          /\ (call.event_types # None /\ call.event_types # <<>>) =>
                                 InList(e.event_type, call.event_types)}
            Before(a, b) == IF call.order = "desc" THEN a.id > b.id ELSE a.id < b.id
            got == {batch[i] : i \in 1..Len(batch)}
        IN  /\ ~ret.result.raised
            /\ got \subseteq wanted
            /\ Len(batch) = (IF Cardinality(wanted) < call.limit
                              THEN Cardinality(wanted) ELSE call.limit)
            /\ \A i, j \in 1..Len(batch) : i < j => Before(batch[i], batch[j])
            /\ \A e \in wanted \ got : \A g \in got : Before(g, e)

----------------------------------------------------------------------------
(* Properties of the session registry *)

\* A step of register_session: the only tool that leaves a
\* "register_session" result, and neither the clock nor a process moved
RegisterStep == ret'.op = "register_session" /\ now' = now /\ procs' = procs

\* The registrations of (machine, client_id) whose session has not been
\* unregistered, swept or evicted since, the sweep of this call included
PriorRegistrations(machine, client_id) ==
    {t \in regs :
        /\ t.machine = machine /\ t.client_id = client_id
        /\ \E r \in Active(cleanup_stale_sessions(sessions, now)) : r.id = t.session_id}

\* C9: a register_session call for a (machine, client_id) that was registered
\* before, with no unregister, sweep or eviction of that session since,
\* returns the same session id with resumed = true and does not raise the
\* active session count; a call for a pair never registered returns
\* resumed = false.
C9_DedupCorrectness ==
    [][(RegisterStep /\ ret'.client_id # None) =>
          LET prior == PriorRegistrations(ret'.machine, ret'.client_id)
          IN  /\ prior # {} =>
                    /\ ret'.resumed
                    /\ ret'.session_id \in {t.session_id : t \in prior}
                    /\ session_count(sessions') <= session_count(sessions)
              /\ prior = {} => ~ret'.resumed]_vars

\* The session_registered events of a session id
RegisteredEvents(session_id) ==
    {e \in events : e.event_type = "session_registered" /\ e.session_id = session_id}

\* C10: of two register_session calls in flight at once for the same
\* (machine, client_id), with no registration of that session id from another
\* machine, at most one reports a new session (resumed = false) and at most
\* one session_registered event is appended.
C10_NoDoubleCreate ==
    \A t1, t2 \in Threads :
        LET a == calls[t1]
            b == calls[t2]
        IN  (/\ t1 # t2 /\ a.pc = "done" /\ b.pc = "done"
             /\ a.client_id # None
             /\ a.machine = b.machine /\ a.client_id = b.client_id
             /\ \A e \in RegisteredEvents(a.session_id) : e.payload[3] = a.machine)
            => /\ a.resumed \/ b.resumed
               /\ Cardinality(RegisteredEvents(a.session_id)) <= 1

\* C11: among the active sessions no two have the same machine and client_id
\* (client_id present), and no two have the same id.
C11_ActiveSessionsUnique ==
    \A r1, r2 \in Active(sessions) :
        /\ (r1.client_id # None /\ r1.machine = r2.machine
               /\ r1.client_id = r2.client_id) => r1 = r2
        /\ r1.id = r2.id => r1 = r2

\* A keyed session of the local host was resumed next to another active session
C11_Witness ==
    /\ ret.op = "register_session" /\ ret.resumed
    /\ Cardinality(Active(sessions)) >= 2
    /\ \E r \in Active(sessions) : r.client_id # None /\ r.machine = LocalHost

\* C12: a register_session call with client_id k on one machine leaves an
\* active session of another machine that has the same client_id k active,
\* with its id, machine, name, display_id and last_cursor as they were, and
\* the session the call returns is another, active one.
C12_KeyIsMachineLocal ==
    [][(RegisterStep /\ ret'.client_id # None) =>
          \A r \in Active(cleanup_stale_sessions(sessions, now)) :
              (r.client_id = ret'.client_id /\ r.machine # ret'.machine) =>
                  /\ \E q \in Active(sessions') :
                        /\ q.id = r.id /\ q.machine = r.machine /\ q.name = r.name
                        /\ q.display_id = r.display_id /\ q.last_cursor = r.last_cursor
                  /\ \E q \in Active(sessions') :
                        /\ q.id = ret'.session_id /\ q.id # r.id
                        /\ q.machine = ret'.machine]_vars

\* C13: a register_session call with no client_id, or with a client_id no
\* active session has, reports a new session whose id no active session had,
\* and leaves every active session in the table as it was.
C13_NewKeyNeverCollides ==
    [][(/\ RegisterStep
        /\ \A r \in Active(cleanup_stale_sessions(sessions, now)) :
              ret'.client_id = None \/ r.client_id # ret'.client_id) =>
          /\ ~ret'.resumed
          /\ \A r \in Active(cleanup_stale_sessions(sessions, now)) :
                r.id # ret'.session_id /\ r \in sessions']_vars

\* C14: when a step soft-deletes an active session (unregister, stale sweep
\* or liveness eviction), then in the table it leaves get_session finds
\* nothing under the id, find_session_by_client and list_sessions do not
\* return the row, session_count does not count it, and the row is in the
\* table as it was but for deleted_at, which is the time of the step.
C14_SoftDeleteInvisible ==
    [][\A r \in Active(sessions) :
          (\E q \in sessions' : q.id = r.id /\ q.deleted_at # NoTime) =>
              /\ get_session(sessions', r.id) = {}
              /\ \A q \in find_session_by_client(sessions', r.machine, r.client_id) :
                    q.id # r.id
              /\ \A listed \in SQLiteStorage_list_sessions(sessions') :
                    \A i \in 1..Len(listed) : listed[i].id # r.id
              /\ session_count(sessions')
                    = Cardinality(sessions') - Cardinality({q \in sessions' : q.deleted_at # NoTime})
              /\ [r EXCEPT !.deleted_at = now] \in sessions']_vars

\* A listing has evicted the session of a client that exited, next to a
\* session the sweep deleted
C14_Witness ==
    /\ ret.op = "list_sessions" /\ ~ret.raised
    /\ \E q \in sessions :
          /\ q.deleted_at = now /\ q.client_id = <<"7">> /\ q.machine = LocalHost
          /\ procs[<<"7">>] = "gone" /\ q.last_heartbeat >= now - SESSION_TIMEOUT
    /\ \E q \in sessions :
          q.deleted_at # NoTime /\ q.last_heartbeat < q.deleted_at - SESSION_TIMEOUT

\* C15: a row that has deleted_at set is in the table after every step, as
\* it was: no step removes it, replaces it or clears its deleted_at.
C15_SoftDeleteIsTerminal ==
    [][\A r \in sessions : r.deleted_at # NoTime => r \in sessions']_vars

\* C16: cleanup_stale_sessions(timeout) sets deleted_at on exactly the active
\* sessions whose last_heartbeat is before now - timeout and returns how many
\* they are; every other row is as it was; list_sessions returned each of
\* them before the call and returns none of them after it.
C16_SweepDeletesExactlyTheStale ==
    [][(ret'.op = "cleanup_stale_sessions" /\ now' = now) =>
          LET stale == {r \in Active(sessions) :
                           r.last_heartbeat < now - ret'.timeout_seconds}
          IN  /\ sessions' = (sessions \ stale)
                                \cup {[r EXCEPT !.deleted_at = now] : r \in stale}
              /\ ret'.result = Cardinality(stale)
              /\ \A r \in stale :
                    /\ \A listed \in SQLiteStorage_list_sessions(sessions) :
                          \E i \in 1..Len(listed) : listed[i].id = r.id
                    /\ \A listed \in SQLiteStorage_list_sessions(sessions') :
                          \A i \in 1..Len(listed) : listed[i].id # r.id]_vars

\* A sweep deleted one session and spared one last heard of at the cutoff
C16_Witness ==
    /\ ret.op = "cleanup_stale_sessions" /\ ret.result = 1
    /\ \E r \in sessions : r.deleted_at = now /\ r.last_heartbeat < now - ret.timeout_seconds
    /\ \E r \in Active(sessions) : r.last_heartbeat = now - ret.timeout_seconds

\* C17: update_heartbeat and update_session_cursor for an id no active
\* session has return false and leave the table as it was; get_events and
\* publish_event, under whatever session_id, add no row to the sessions table
\* and leave every soft-deleted row as it was.
C17_NoActiveSessionNoChange ==
    [][now' = now =>
          /\ (/\ ret'.op \in {"update_heartbeat", "update_session_cursor"}
              /\ \A r \in Active(sessions) : r.id # ret'.session_id) =>
                 (ret'.result = FALSE /\ sessions' = sessions)
          /\ ret'.op \in {"get_events", "publish_event"} =>
                 /\ {r.id : r \in sessions'} = {r.id : r \in sessions}
                 /\ \A r \in sessions : r.deleted_at # NoTime => r \in sessions']_vars

\* A session published after it was soft-deleted, and its id had published
\* before the session was stored
C17_Witness ==
    /\ ret.op = "publish_event"
    /\ \E r \in sessions, e \in events :
          /\ r.deleted_at # NoTime /\ e.session_id = r.id
          /\ e.timestamp > r.deleted_at /\ e.timestamp > r.last_heartbeat
    /\ \E e \in events :
          /\ e.session_id \in Pids
          /\ \A r \in sessions : r.id = e.session_id => e.timestamp < r.registered_at

----------------------------------------------------------------------------
(* Properties of the liveness check *)

\* client_id is present, the session is local, client_id parses as an
\* integer, and the process table holds no running process under it
DefinitelyDead(client_id, is_local) ==
    /\ client_id # None /\ is_local /\ PyInt(client_id).ok
    /\ LET pid == PyInt(client_id)
       IN  \/ pid.neg \/ pid.mag = <<>>
           \/ MagStr(pid.mag) \notin DOMAIN procs
           \/ procs[MagStr(pid.mag)] = "gone"

\* C19: is_client_alive returns a bool; it returns false only for a present
\* client_id of a local session that parses as a process id no running
\* process has, and true in every other case.
C19_DeadOnlyWhenDefinitelyDead ==
    ret.op = "is_client_alive" =>
        /\ ~ret.outcome.raised
        /\ ~DefinitelyDead(call.client_id, call.is_local) => ret.outcome.result

\* C20: a call of list_sessions returns a list; every session that is
\* active after the sweep and fails the liveness check is soft-deleted and
\* not in the list; the list holds exactly the sessions active after the
\* call; and a session of another machine, or one with no client_id, that is
\* active after the sweep is active after the call.
C20_ListingEvictsOnlyTheDead ==
    [][(ret'.op = "list_sessions" /\ now' = now /\ procs' = procs) =>
          LET swept == Active(cleanup_stale_sessions(sessions, now))
          IN  /\ ~ret'.raised
              /\ {ret'.result[i] : i \in 1..Len(ret'.result)} = Active(sessions')
              /\ \A r \in swept :
                    (~Alive(r).raised /\ ~Alive(r).result) =>
                        [r EXCEPT !.deleted_at = now] \in sessions'
              /\ \A r \in swept :
                    (r.machine # LocalHost \/ r.client_id = None) =>
                        r \in Active(sessions')]_vars

----------------------------------------------------------------------------
(* Properties of the cursors handed to a session *)

\* C21: a register_session call that resumes a session returns as cursor the
\* last_cursor stored in that session's row before the call when one is
\* stored, whatever was appended since; when none is stored it returns the id
\* of the newest event of the log at the call.
C21_ResumeFromBookmark ==
    [][(RegisterStep /\ ret'.resumed) =>
          \E r \in Active(sessions) :
              /\ r.id = ret'.session_id
              /\ r.last_cursor # None => ret'.cursor = r.last_cursor
              /\ r.last_cursor = None =>
                    ret'.cursor = PyStr(MaxOf(IdsOf(events)))]_vars

\* A resumed session was handed a bookmark that is older than the newest
\* event of the log
C21_Witness ==
    /\ ret.op = "register_session" /\ ret.resumed
    /\ \E r \in Active(sessions) :
          /\ r.id = ret.session_id /\ r.last_cursor = ret.cursor
          /\ \E e \in events : IntGreater(e.id, PyInt(ret.cursor))

\* C22: a register_session call that creates a session appends one event and
\* no other, a session_registered event of that session, and returns its id
\* as cursor; a client polling in asc order from that cursor is returned the
\* events in increasing id order, none of them an event that was in the log
\* when register_session returned, and by an empty batch it has been returned
\* every event appended since.
C22_NewSessionCursor ==
    [][/\ (RegisterStep /\ poll' = poll /\ ~ret'.resumed) =>
             \E e \in events' \ events :
                 /\ events' = events \cup {e}
                 /\ e.event_type = "session_registered"
                 /\ e.session_id = ret'.session_id
                 /\ ret'.cursor = PyStr(e.id)
       /\ poll'.active =>
             /\ StrictlyIncreasing(poll'.seen)
             /\ \A i \in 1..Len(poll'.seen) :
                    poll'.seen[i] \in IdsOf(poll'.log \ poll'.registered)
             /\ poll'.done =>
                    \A e \in poll'.log \ poll'.registered :
                        \E i \in 1..Len(poll'.seen) : poll'.seen[i] = e.id]_vars

\* A session registered into a non-empty log has polled an event appended
\* since, and then an empty batch
C22_Witness ==
    /\ poll.active /\ poll.done /\ poll.pages >= 2
    /\ Cardinality(poll.registered) >= 2
    /\ Len(poll.seen) >= 1

\* C23: whatever a call does, every row of the events table is afterwards
\* still in the table, and is the only row stored under its id: no call
\* deletes an event or changes its id, type, payload, session id or channel.
C23_LogIsAppendOnly ==
    [][\A e \in events :
          /\ e \in events'
          /\ \A f \in events' : f.id = e.id => f = e]_vars

\* The session that appended an event has polled and was swept since, and
\* the sessions were listed
C23_Witness ==
    /\ ret.op = "list_sessions"
    /\ \E r \in sessions :
          /\ r.deleted_at # NoTime /\ r.last_cursor # None
          /\ \E e \in events : e.session_id = r.id

----------------------------------------------------------------------------
(* Properties of opening a store *)

\* A step of _init_db that returned
OpenStep == ret'.op = "_init_db" /\ ~ret'.raised

\* C24: after a store whose version (the greatest row of schema_version, 0
\* when there is none) is at most the target has been opened successfully,
\* schema_version holds one row, the target version.
C24_OneVersionRow ==
    [][(OpenStep /\ get_schema_version(db.versions) <= SCHEMA_VERSION) =>
          db'.versions = {SCHEMA_VERSION}]_vars

\* C25: a store that did not exist and a store of schema version 1, once
\* opened successfully, have the same tables with the same columns: those of
\* a store this version creates, sessions with display_id, last_cursor and
\* deleted_at, events with channel.
C25_MigrationEquivalence ==
    [][(/\ OpenStep
        /\ \/ db.columns = NoStore.columns
           \/ get_schema_version(db.versions) = 1) =>
          /\ db'.columns = OpenedStore.columns
          /\ {"display_id", "last_cursor", "deleted_at"} \subseteq db'.columns.sessions
          /\ "channel" \in db'.columns.events]_vars

\* A store of version 1 has been opened: a session shows its old id as
\* display_id, and the schema is the one a new store gets
C25_Witness ==
    /\ ret.op = "_init_db" /\ ~ret.raised
    /\ db.versions = {SCHEMA_VERSION}
    /\ db.columns = OpenedStore.columns
    /\ \E r \in sessions : r.display_id \in StoredSessionIds

\* C26: opening a store of schema version 1, whatever rows it holds, returns
\* without raising; every session row is afterwards exactly one row that
\* shows the old id as display_id, has the client_id as id when there is one
\* and else a token that was no row's id, and keeps its other columns; no
\* session row is added or lost; and every event row is kept.
C26_MigrationLosesNothing ==
    [][(/\ ret'.op = "_init_db"
        /\ get_schema_version(db.versions) = 1
        /\ db.columns.sessions \in {V1Columns, V1OldColumns}) =>
          /\ ~ret'.raised
          /\ Cardinality(sessions') = Cardinality(sessions)
          /\ \A r \in sessions :
                Cardinality({q \in sessions' :
                    /\ q.display_id = r.id
                    /\ IF Truthy(r.client_id) THEN q.id = r.client_id
                       ELSE q.id \notin {p.id : p \in sessions}
                    /\ \A c \in DOMAIN r \ {"id"} : q[c] = r[c]}) = 1
          /\ Cardinality(events') = Cardinality(events)
          /\ \A e \in events :
                \E f \in events' : \A c \in DOMAIN e : f[c] = e[c]]_vars

\* C27: when opening a store raises, the store file is as it was before the
\* open: the same tables and columns, the same schema_version rows, the same
\* session rows and the same event rows.
C27_FailedOpenChangesNothing ==
    [][(ret'.op = "_init_db" /\ ret'.raised) =>
          /\ db' = db
          /\ sessions' = sessions
          /\ events' = events]_vars

----------------------------------------------------------------------------
(* Properties of unregister_session *)

\* A step of unregister_session that was given, or looked up, a session id
UnregisterStep ==
    /\ ret'.op = "unregister_session" /\ now' = now /\ procs' = procs
    /\ ret'.session_id # None

----------------------------------------------------------------------------
(* Properties of get_events as a tool *)

\* A step of the tool get_events
GetEventsStep == ret'.op = "get_events" /\ now' = now /\ procs' = procs

\* C29: a get_events call never lowers the last_cursor of a session, and the
\* last_cursor it leaves is the greatest of the one stored before and the ids
\* of the events it returned to that session: the greatest id the session
\* was ever returned.
C29_HighWaterMark ==
    [][GetEventsStep =>
          \A r \in sessions : \A q \in sessions' :
              q.id = r.id =>
                  /\ CursorId(q.last_cursor) >= CursorId(r.last_cursor)
                  /\ q.last_cursor # r.last_cursor =>
                        LET batch == ret'.result.events
                        IN  CursorId(q.last_cursor) =
                                MaxOf({CursorId(r.last_cursor)}
                                      \cup {batch[i].id : i \in 1..Len(batch)})]_vars

\* C30: two get_events calls with the same cursor, limit, order, channel and
\* event_types against the same log, resume not in effect, return the same
\* events and next_cursor whatever session_id each was given; and a call with
\* no channel argument that returns, returns the first `limit` events, in
\* the order asked, of all events after the cursor that have a type asked
\* for, whatever their channel.
C30_ChannelsAreAdvisory ==
    [][GetEventsStep =>
          /\ (ret.op = "get_events" /\ events' = events) => ret'.result = ret.result
          /\ (call.channel = "" /\ ~ret'.result.raised) =>
                LET batch == ret'.result.events
                    got == {batch[i] : i \in 1..Len(batch)}
                    wanted == {e \in events :
                                  /\ IntGreater(e.id, SinceId(call.cursor))
                                  /\ Truthy(call.event_types) =>
                                         InList(e.event_type, call.event_types)}
                    Before(a, b) == IF call.order = "desc" THEN a.id > b.id
                                    ELSE a.id < b.id
                IN  /\ got \subseteq wanted
                    /\ Len(batch) = (IF Cardinality(wanted) < call.limit
                                      THEN Cardinality(wanted) ELSE call.limit)
                    /\ \A e \in wanted \ got : \A g \in got : Before(g, e)]_vars

\* A registered session that asked with no channel argument was returned an
\* event of another session's channel
C30_Witness ==
    /\ ret.op = "get_events" /\ call.channel = "" /\ ~ret.result.raised
    /\ \E i \in 1..Len(ret.result.events) :
          /\ ret.result.events[i].channel = "session:u1"
          /\ \E r \in Active(sessions) :
                r.last_cursor = PyStr(MaxOf(IdsOf({ret.result.events[j] :
                                                  j \in 1..Len(ret.result.events)})))

----------------------------------------------------------------------------
(* Properties of publish_event *)

\* A step of the tool publish_event
PublishStep == ret'.op = "publish_event" /\ now' = now /\ procs' = procs

\* C31: every publish_event call returns, appends exactly one event, the
\* event has the type, payload and channel given, the call returns the id of
\* that event, and the event's session_id is "anonymous" when the call was
\* given no session_id.
C31_PublishAlwaysAppends ==
    [][PublishStep =>
          /\ ~ret'.raised
          /\ \E e \in events' \ events :
                /\ events' = events \cup {e}
                /\ e.event_type = ret'.event_type
                /\ e.payload = ret'.payload
                /\ e.channel = ret'.channel
                /\ ret'.event_id = e.id
                /\ ret'.session_id = None => e.session_id = Anonymous]_vars

\* A step of unregister_session whose arguments `call` keeps
UnregisterByStep ==
    /\ ret'.op = "unregister_session" /\ call'.op = "unregister_session"
    /\ now' = now /\ procs' = procs

\* C32: unregister_session(client_id=k) with no session_id, when an active
\* session has client_id k, returns success with that session's id and
\* soft-deletes it; and a call given a session_id acts on that id whatever
\* client_id it was given: it reports that id and changes no other session.
C32_UnregisterByClientId ==
    [][UnregisterByStep =>
          /\ (call'.session_id = None /\ Truthy(call'.client_id)) =>
                \A r \in Active(sessions) :
                    r.client_id = call'.client_id =>
                        /\ ~ret'.error
                        /\ ret'.session_id = r.id
                        /\ [r EXCEPT !.deleted_at = now] \in sessions'
          /\ Truthy(call'.session_id) =>
                /\ ret'.session_id = call'.session_id
                /\ ret'.error <=> get_session(sessions, call'.session_id) = {}
                /\ \A r \in sessions : r.id # call'.session_id => r \in sessions']_vars

\* A step of get_events whose arguments `call` keeps
GetEventsWithStep ==
    /\ ret'.op = "get_events" /\ call'.op = "get_events"
    /\ now' = now /\ procs' = procs /\ events' = events

\* The active sessions of the id given that have a bookmark
Bookmarked(session_id) ==
    {r \in Active(sessions) : r.id = session_id /\ Truthy(r.last_cursor)}

\* C33: a get_events call reads the log from the last_cursor of its session
\* when resume is set, no cursor is given and session_id names an active
\* session that has a bookmark, and from the cursor argument in every other
\* case; and a call with resume and no session_id leaves the same sessions
\* and returns the same result as that call without resume.
C33_ResumePrecedence ==
    [][GetEventsWithStep =>
          LET a == call'
              resumes == /\ a.resume /\ a.cursor = None /\ Truthy(a.session_id)
                         /\ Bookmarked(a.session_id) # {}
              from == IF resumes
                      THEN (CHOOSE r \in Bookmarked(a.session_id) : TRUE).last_cursor
                      ELSE a.cursor
          IN  /\ ret'.result =
                    SQLiteStorage_get_events(events, from, a.limit, None, a.order, None)
              /\ (a.resume /\ ~Truthy(a.session_id)) =>
                    LET c == get_events_call(a.cursor, a.limit, a.session_id, a.order,
                                             "", FALSE, None)
                    IN  sessions' = c.sessions /\ ret'.result = c.result]_vars

\* A call with resume and no cursor skipped the events up to the bookmark of
\* its session
C33_Witness ==
    /\ ret.op = "get_events" /\ call.op = "get_events"
    /\ call.resume /\ call.cursor = None /\ call.order = "asc"
    /\ \E r \in Active(sessions) : r.id = call.session_id
    /\ ret.result.events # <<>>
    /\ \E e \in events : e.id < ret.result.events[1].id

\* C34: a get_events call that returns no event leaves the last_cursor of
\* the session it was called for as it was, and a get_events call with no
\* session_id leaves the last_cursor and the last_heartbeat of every session
\* as they were.
C34_EmptyPollKeepsBookmark ==
    [][GetEventsWithStep =>
          /\ ret'.result.events = <<>> =>
                \A r \in sessions :
                    r.id = call'.session_id =>
                        \E q \in sessions' : q.id = r.id /\ q.last_cursor = r.last_cursor
          /\ ~Truthy(call'.session_id) =>
                \A r \in sessions :
                    \E q \in sessions' :
                        /\ q.id = r.id
                        /\ q.last_cursor = r.last_cursor
                        /\ q.last_heartbeat = r.last_heartbeat]_vars

\* After the timeout a session polled from its bookmark and got nothing: its
\* heartbeat is new, its bookmark is the one it had, and a session that did
\* not poll was swept
C34_Witness ==
    /\ ret.op = "get_events" /\ call.op = "get_events"
    /\ ret.result.events = <<>> /\ now > SESSION_TIMEOUT
    /\ \E r \in Active(sessions) :
          /\ r.id = call.session_id /\ Truthy(r.last_cursor)
          /\ r.last_heartbeat = now /\ r.registered_at < now
    /\ \E r \in sessions : r.deleted_at = now

----------------------------------------------------------------------------
(* Properties of the stale sweep inside the tools *)

\* The active sessions last heard of more than the timeout ago
Stale(tbl) == {r \in Active(tbl) : r.last_heartbeat < now - SESSION_TIMEOUT}

\* C35: a register_session call for the (machine, client_id) of an active
\* session whose last_heartbeat is older than the timeout does not resume
\* it: the call reports resumed = false, appends one session_registered
\* event and returns that event's id as the cursor, the session it leaves
\* under the returned id is registered now and has no bookmark, and no stale
\* session is active after the call.
C35_RegisterSweepsFirst ==
    [][(RegisterStep /\ ret'.client_id # None) =>
          \A r \in Stale(sessions) :
              (r.machine = ret'.machine /\ r.client_id = ret'.client_id) =>
                  /\ ~ret'.resumed
                  /\ \E e \in events' \ events :
                        /\ events' = events \cup {e}
                        /\ e.event_type = "session_registered"
                        /\ e.session_id = ret'.session_id
                        /\ ret'.cursor = PyStr(e.id)
                  /\ \E q \in Active(sessions') :
                        /\ q.id = ret'.session_id
                        /\ q.registered_at = now /\ q.last_heartbeat = now
                        /\ q.last_cursor = None
                  /\ r \notin Active(sessions')
                  /\ \A q \in Active(sessions') : q.last_heartbeat >= now - SESSION_TIMEOUT]_vars

\* A client registered again after the timeout had passed and was given a
\* new session: its id has two session_registered events, and the cursor
\* returned is the id of the second
C35_Witness ==
    /\ ret.op = "register_session" /\ ~ret.resumed /\ ret.client_id # None
    /\ now > SESSION_TIMEOUT
    /\ \E e, f \in events :
          /\ e.event_type = "session_registered" /\ f.event_type = "session_registered"
          /\ e.session_id = ret.session_id /\ f.session_id = ret.session_id
          /\ e.timestamp = 0 /\ f.timestamp = now
          /\ ret.cursor = PyStr(f.id)

\* C36: a session that is active when get_events is called with its id is
\* active when the call returns, whatever its last_heartbeat was.
C36_CallerSurvivesSweep ==
    [][GetEventsWithStep =>
          \A r \in Active(sessions) :
              r.id = call'.session_id => \E q \in Active(sessions') : q.id = r.id]_vars

----------------------------------------------------------------------------
(* Properties of a resuming register_session *)

\* C37: a register_session call that resumes a session leaves, under the id
\* it returns, the row that was stored with the name of the call and the
\* time of the call as last_heartbeat and every other column as it was
\* (display_id, machine, cwd, repo, registered_at, client_id, last_cursor,
\* deleted_at), and appends no event.
C37_ResumeChangesNameAndHeartbeat ==
    [][(RegisterStep /\ ret'.resumed) =>
          /\ events' = events
          /\ \E r \in Active(sessions) :
                /\ r.id = ret'.session_id
                /\ \A q \in sessions' :
                      q.id = r.id => q = [r EXCEPT !.name = ret'.name,
                                                   !.last_heartbeat = now]
                /\ \E q \in sessions' : q.id = r.id]_vars

\* A session with a bookmark was resumed later under another name from
\* another directory: the row has the new name and the directory it was
\* registered with
C37_Witness ==
    /\ ret.op = "register_session" /\ ret.resumed
    /\ \E r \in Active(sessions) :
          /\ r.id = ret.session_id
          /\ r.name = ret.name /\ r.cwd # ret.cwd /\ r.repo # ret.repo
          /\ r.last_heartbeat > r.registered_at
          /\ Truthy(r.last_cursor)
          /\ \E e \in events :
                /\ e.event_type = "session_registered" /\ e.session_id = r.id
                /\ e.timestamp = r.registered_at /\ e.payload[1] # r.name

----------------------------------------------------------------------------
(* Properties of tool calls that run at once *)

\* The session_unregistered events of a session id
UnregisteredEvents(session_id) ==
    {e \in events : e.event_type = "session_unregistered" /\ e.session_id = session_id}

\* C38: of two unregister_session calls in flight at once for the same
\* session id, the id registered once, at most one reports success and at
\* most one session_unregistered event is appended for the id.
C38_UnregisterOnce ==
    \A t1, t2 \in Threads :
        LET a == calls[t1]
            b == calls[t2]
        IN  (/\ t1 # t2 /\ a.pc = "u_done" /\ b.pc = "u_done"
             /\ a.session_id # None /\ a.session_id = b.session_id
             /\ Cardinality(RegisteredEvents(a.session_id)) = 1)
            => /\ a.error \/ b.error
               /\ Cardinality(UnregisteredEvents(a.session_id)) <= 1

\* The step in which a resuming register_session writes the session back
ResumeWrite(t) == calls[t].pc = "write" /\ calls'[t].pc = "cursor"

\* C39: the write of a resuming register_session leaves a session that is
\* soft-deleted at the time of the write soft-deleted, and leaves the
\* last_cursor the session has at the time of the write as it is.
C39_ResumeKeepsCommittedWrites ==
    [][\A t \in Threads :
          ResumeWrite(t) =>
              \A r \in sessions :
                  r.id = calls'[t].session_id =>
                      \E q \in sessions' :
                          /\ q.id = r.id
                          /\ r.deleted_at # NoTime => q.deleted_at # NoTime
                          /\ q.last_cursor = r.last_cursor]_vars

====
